---- MODULE Spec2Model ----
(***************************************************************************)
(* Gateway firmware of the sampling-iot repository (esp32/main/main.c):    *)
(* the UART receive task rx_task (frame reassembly and the idle            *)
(* supervisor) and the MQTT event handler mqtt_event_handler (the command  *)
(* translator and the acknowledgement), as two FreeRTOS tasks sharing the  *)
(* flags g_collection_enable and g_is_configuring and the UART.            *)
(***************************************************************************)
EXTENDS Integers, Sequences, FiniteSets, TLC

VARIABLES
    \* ---- globals of main.c
    g_collection_enable,   \* main.c:46
    g_is_configuring,      \* main.c:47
    mqtt_client,           \* main.c:49, TRUE when the handle is not NULL
    s_retry_num,           \* main.c:63
    s_wifi_event_group,    \* main.c:52, the bits that are set
    \* ---- the sensor side: Read_CS1237 (cs1237.c:178-242) and the ADC's data line
    count_i,               \* unsigned char count_i
    dat,                   \* unsigned long dat
    PoolFlag,              \* 1 when the sample read last was negative
    adc_pc,                \* position of the sensor's processor in Read_CS1237
    adc_ret,               \* what Read_CS1237 returned last (-1: nothing yet)
    dout,                  \* TRUE while the ADC holds its data line high
    \* ---- locals of rx_task (main.c:389-397)
    state,                 \* 0: wait AA, 1: wait 55, 2: read data
    frame_buffer,          \* uint8_t frame_buffer[10]
    data_idx,
    elapsed,               \* xTaskGetTickCount() - last_data_time, counted up to IdleTicks + 1
    rx_pc,                 \* position of rx_task in its loop
    rx_wait,               \* ticks left of rx_task's vTaskDelay or read time-out
    \* ---- the MQTT task running mqtt_event_handler
    h_pc,                  \* position of the handler inside one MQTT_EVENT_DATA
    h_req,                 \* the request being handled
    h_val,                 \* val_char of the field being written
    h_wait,                \* ticks left of the handler's vTaskDelay
    h_ticks,               \* ticks since the handler's last uart_write_bytes (counted up to DelayTicks + 1)
    inbox,                 \* requests the broker has delivered, not yet handled
    \* ---- the environment
    uart_rx,               \* bytes the sensor has sent, queued in the UART driver
    uart_ok,               \* FALSE while uart_write_bytes fails (returns -1)
    mid,                   \* TRUE when time has passed since the last tick of the clock
    h_seen,                \* the request delivered last, and g_collection_enable then
    wire,                  \* bytes written with uart_write_bytes, in order
    readings,              \* Readings decoded by rx_task, in order
    acks,                  \* set_reply messages published, in order: the id, and how
                           \* many requests were waiting when it was published
    \* ---- history of the run, read by the properties only
    last10,                \* the last (at most 10) bytes rx_task ingested
    emitted,               \* TRUE when the last ingested byte produced a Reading
    cur,                   \* the item (noise byte or frame) the sensor sent last
    prev,                  \* the item before it
    clean,                 \* bytes sent since the last corrupted byte (capped)
    tally,                 \* what the sensor has sent so far, in summary
    sup,                   \* what the idle supervisor has done so far, in summary
    wifi_log,              \* what the Wi-Fi event handler has done so far, in summary
    budget                 \* what the environment may still do (the model's bounds)

rxVars   == <<state, frame_buffer, data_idx, readings, last10, emitted>>
taskVars == <<rx_pc, rx_wait, elapsed>>
hVars    == <<h_pc, h_req, h_val, h_wait, h_ticks, inbox, acks>>
envVars  == <<uart_ok, mid, h_seen>>
\* What app_main sets up before it creates rx_task (main.c:500-501).
bootVars == <<mqtt_client, s_retry_num, s_wifi_event_group, wifi_log>>
adcVars  == <<count_i, dat, PoolFlag, adc_pc, adc_ret, dout>>
flagVars == <<g_collection_enable, g_is_configuring, bootVars, adcVars>>
genVars  == <<cur, prev, clean, tally>>
vars     == <<g_collection_enable, g_is_configuring, mqtt_client,
              s_retry_num, s_wifi_event_group, wifi_log,
              count_i, dat, PoolFlag, adc_pc, adc_ret, dout, state,
              frame_buffer, data_idx, elapsed, rx_pc, rx_wait, h_pc,
              h_req, h_val, h_wait, h_ticks, inbox, uart_rx, uart_ok, mid, h_seen, wire, readings, acks,
              last10, emitted, cur, prev, clean, tally, sup, budget>>

(***************************************************************************)
(* Wire constants                                                          *)
(***************************************************************************)
PREAMBLE1 == 170
PREAMBLE2 == 85
TRAILER1  == 13
TRAILER2  == 10
FRAME_LEN == 10
Uninit    == -1

(***************************************************************************)
(* Bounds of the model                                                     *)
(***************************************************************************)
MaxNoise  == 4      \* noise bytes the sensor sends (receiver alone)
MaxFrames == 2      \* 10-byte windows the sensor sends (receiver alone)
MaxRetries == 2     \* resume bytes of the supervisor after which the clock stops
MaxWifiEvents == 12 \* Wi-Fi events handled
MaxEvents == 2      \* events of the environment while both tasks run: a
                    \* request delivered, a byte from the sensor, or a tick
                    \* that passes while a task could run

(***************************************************************************)
(* Times, in ticks                                                         *)
(***************************************************************************)
\* FreeRTOS tick period in ms (sdkconfig, not in the repository); main.c only
\* divides by it.  100 ms is the longest period for which no delay of main.c
\* rounds down to 0 ticks.
portTICK_PERIOD_MS == 100
IdleTicks  == 2000 \div portTICK_PERIOD_MS    \* main.c:411
ReadTicks  == 100 \div portTICK_PERIOD_MS     \* main.c:420
PauseTicks == 1000 \div portTICK_PERIOD_MS    \* main.c:406
\* The settle delay in ms (main.c:266, 270, 293)
SETTLE_MS == 100
DelayTicks == SETTLE_MS \div portTICK_PERIOD_MS
\* Tick counts are compared with IdleTicks only, so they are counted up to
\* IdleTicks + 1 and stay there.
TimerCap == IdleTicks + 1
Age(t) == IF t = -1 THEN -1 ELSE IF t < TimerCap THEN t + 1 ELSE TimerCap

(***************************************************************************)
(* Inputs the model draws from                                             *)
(***************************************************************************)
\* Bytes of line noise: both preamble bytes and one byte that matches nothing.
NoiseBytes == {PREAMBLE1, PREAMBLE2, 1}
\* Payloads (offsets 2..7) of the frames the sensor sends: 2.5 V with gain
\* code 2 (float32 0x40200000, little-endian), a gain code whose two bytes are
\* the preamble pair, and a payload that starts with the preamble pair and
\* ends with the trailer pair.
Payloads == { <<0, 0, 32, 64, 2, 0>>,
              <<1, 1, 1, 1, PREAMBLE1, PREAMBLE2>>,
              <<PREAMBLE1, PREAMBLE2, 0, 0, TRAILER1, TRAILER2>> }
GoodTrailer == <<TRAILER1, TRAILER2>>
BadTrailers == { <<TRAILER1, TRAILER1>>, <<TRAILER2, TRAILER2>> }
Trailers    == {GoodTrailer} \cup BadTrailers

Min(a, b) == IF a < b THEN a ELSE b

(***************************************************************************)
(* rx_task: the frame receiver (main.c:428-473)                            *)
(***************************************************************************)
\* Mutant of TailOk: only the last trailer byte is compared.
TailOk_OnlyLast(fb) == fb[9] = TRAILER2

\* main.c:449
TailOk(fb) == fb[8] = TRAILER1 /\ fb[9] = TRAILER2

\* main.c:451-452: memcpy of frame_buffer[2..5] into a float; the Reading
\* carries the four bytes of the float's object representation, lowest first.
DecodeVoltage(fb) == <<fb[2], fb[3], fb[4], fb[5]>>

\* Mutant of DecodePga: the two gain bytes read high byte first.
DecodePga_BigEndian(fb) == 256 * fb[6] + fb[7]

\* main.c:453-454: memcpy of frame_buffer[6..7] into a uint16_t (little-endian).
DecodePga(fb) == fb[6] + 256 * fb[7]

\* Mutant of Reading: the Reading is logged and never published.
Reading_LoggedOnly(fb, client) ==
    [voltage |-> DecodeVoltage(fb), pga |-> DecodePga(fb), published |-> 0]

\* main.c:456-466: the Reading is logged, and published when mqtt_client is
\* set; published is the number of calls of esp_mqtt_client_publish for it.
Reading(fb, client) ==
    [voltage |-> DecodeVoltage(fb), pga |-> DecodePga(fb),
     published |-> IF client THEN 1 ELSE 0]

\* main.c:429-434
Case0(s, b) ==
    IF b = PREAMBLE1
    THEN [s EXCEPT !.frame_buffer[0] = b, !.state = 1]
    ELSE s

\* Mutant of Case1: data_idx is not set back to 2 when the preamble completes.
Case1_NoIndexReset(s, b) ==
    IF b = PREAMBLE2
    THEN [s EXCEPT !.frame_buffer[1] = b, !.state = 2]
    ELSE [s EXCEPT !.state = IF b = PREAMBLE1 THEN 1 ELSE 0]

\* Mutant of Case1: a byte that is not 0x55 always returns to state 0.
Case1_NoRecheck(s, b) ==
    IF b = PREAMBLE2
    THEN [s EXCEPT !.frame_buffer[1] = b, !.data_idx = 2, !.state = 2]
    ELSE [s EXCEPT !.state = 0]

\* main.c:435-444
Case1(s, b) ==
    IF b = PREAMBLE2
    THEN [s EXCEPT !.frame_buffer[1] = b, !.data_idx = 2, !.state = 2]
    ELSE [s EXCEPT !.state = IF b = PREAMBLE1 THEN 1 ELSE 0]

\* Mutant of Case2: the receiver returns to state 0 only after a valid trailer.
Case2_ResetOnlyIfValid(s, b, client) ==
    LET fb  == [s.frame_buffer EXCEPT ![s.data_idx] = b]
        idx == s.data_idx + 1
    IN  IF idx = FRAME_LEN /\ TailOk(fb)
        THEN [state |-> 0, data_idx |-> idx, frame_buffer |-> fb,
              out |-> <<Reading(fb, client)>>]
        ELSE [s EXCEPT !.frame_buffer = fb, !.data_idx = idx]

\* Mutant of Case2: a preamble pair inside the window starts the frame again.
Case2_RestartOnPreamble(s, b, client) ==
    LET fb  == [s.frame_buffer EXCEPT ![s.data_idx] = b]
        idx == s.data_idx + 1
    IN  IF b = PREAMBLE2 /\ s.data_idx > 2 /\ s.frame_buffer[s.data_idx - 1] = PREAMBLE1
        THEN [s EXCEPT !.data_idx = 2]
        ELSE IF idx = FRAME_LEN
        THEN [state |-> 0, data_idx |-> idx, frame_buffer |-> fb,
              out |-> IF TailOk(fb) THEN <<Reading(fb, client)>> ELSE <<>>]
        ELSE [s EXCEPT !.frame_buffer = fb, !.data_idx = idx]

\* Mutant of Case2: the frame is taken as complete one byte late.
Case2_LateCompletion(s, b, client) ==
    LET fb  == [s.frame_buffer EXCEPT ![s.data_idx] = b]
        idx == s.data_idx + 1
    IN  IF idx = FRAME_LEN + 1
        THEN [state |-> 0, data_idx |-> idx, frame_buffer |-> fb,
              out |-> IF TailOk(fb) THEN <<Reading(fb, client)>> ELSE <<>>]
        ELSE [s EXCEPT !.frame_buffer = fb, !.data_idx = idx]

\* main.c:445-472
Case2(s, b, client) ==
    LET fb  == [s.frame_buffer EXCEPT ![s.data_idx] = b]
        idx == s.data_idx + 1
    IN  IF idx = FRAME_LEN
        THEN [state |-> 0, data_idx |-> idx, frame_buffer |-> fb,
              out |-> IF TailOk(fb) THEN <<Reading(fb, client)>> ELSE <<>>]
        ELSE [s EXCEPT !.frame_buffer = fb, !.data_idx = idx]

\* main.c:428-473: switch (state)
RxStep(s, b, client) ==
    CASE s.state = 0 -> Case0(s, b)
      [] s.state = 1 -> Case1(s, b)
      [] s.state = 2 -> Case2(s, b, client)
      [] OTHER       -> s

\* One byte through the receiver: the switch, and the history of the run.
Ingest(b) ==
    LET r == RxStep([state |-> state, data_idx |-> data_idx,
                     frame_buffer |-> frame_buffer, out |-> <<>>], b, mqtt_client)
    IN  /\ state' = r.state
        /\ data_idx' = r.data_idx
        /\ frame_buffer' = r.frame_buffer
        /\ readings' = readings \o r.out
        /\ emitted' = (r.out # <<>>)
        /\ last10' = IF Len(last10) < FRAME_LEN
                     THEN Append(last10, b)
                     ELSE Append(Tail(last10), b)

(***************************************************************************)
(* The sensor: what arrives on the UART (read at main.c:420)               *)
(***************************************************************************)
NoItem == [kind |-> "none", bytes |-> <<>>, sync |-> 0, base |-> 0, lead |-> FRAME_LEN]

\* What the run remembers of the item before the last one.
Brief(item) == [kind |-> item.kind, sync |-> item.sync, base |-> item.base, lead |-> item.lead]

HasPair(q) == \E i \in 1..(Len(q) - 1) : q[i] = PREAMBLE1 /\ q[i + 1] = PREAMBLE2

\* One byte of line noise.
SensorNoise(b) ==
    /\ uart_rx = <<>>
    /\ budget.noise > 0
    /\ uart_rx' = <<b>>
    /\ budget' = [budget EXCEPT !.noise = @ - 1]
    /\ prev' = Brief(cur)
    /\ cur' = [kind |-> "noise", bytes |-> <<b>>, sync |-> state,
               base |-> Len(readings), lead |-> clean]
    /\ clean' = 0
    /\ tally' = [tally EXCEPT
                    !.noisePair = @ \/ (tally.lastNoise = PREAMBLE1 /\ b = PREAMBLE2),
                    !.lastNoise = b,
                    !.headPair = FALSE]

\* One 10-byte window AA 55 <payload> <trailer>: a well-formed frame when the
\* trailer is 0D 0A, a frame with a corrupted trailer otherwise.
SensorFrame(p, t) ==
    /\ uart_rx = <<>>
    /\ budget.frames > 0
    /\ uart_rx' = <<PREAMBLE1, PREAMBLE2>> \o p \o t
    /\ budget' = [budget EXCEPT !.frames = @ - 1]
    /\ prev' = Brief(cur)
    /\ cur' = [kind |-> IF t = GoodTrailer THEN "good" ELSE "bad",
               bytes |-> <<PREAMBLE1, PREAMBLE2>> \o p \o t, sync |-> state,
               base |-> Len(readings), lead |-> clean]
    /\ clean' = IF t = GoodTrailer THEN Min(FRAME_LEN, clean + FRAME_LEN) ELSE 0
    /\ tally' = [tally EXCEPT
                    !.good = IF t = GoodTrailer THEN @ + 1 ELSE @,
                    !.bad  = IF t = GoodTrailer THEN @ ELSE @ + 1,
                    !.first = IF t = GoodTrailer /\ tally.good = 0
                              THEN <<PREAMBLE1, PREAMBLE2>> \o p \o t ELSE @,
                    !.lastNoise = Uninit,
                    !.headPair = IF t # GoodTrailer THEN FALSE
                                 ELSE IF clean < FRAME_LEN THEN HasPair(p)
                                 ELSE @]

(***************************************************************************)
(* The receiver alone: collection enabled, the link never idle, no request *)
(***************************************************************************)
\* One iteration of the loop of rx_task (main.c:403-474) that finds collection
\* enabled (405), the link not idle (411) and a byte to read (420-421).
RxIteration ==
    /\ rx_pc = "loop"
    /\ g_collection_enable
    /\ ~ (elapsed > IdleTicks)
    /\ uart_rx # <<>>
    /\ Ingest(Head(uart_rx))
    /\ uart_rx' = Tail(uart_rx)
    /\ elapsed' = 0
    /\ UNCHANGED <<rx_pc, rx_wait, wire, budget, sup>>
    /\ UNCHANGED <<flagVars, hVars, genVars, envVars>>

\* The supervisor so far: resume bytes written (n), time-outs found (due),
\* time-outs at which g_is_configuring was read true (skipped); ticks since the
\* last resume byte (since), since the last such read (cfgSince) and since the
\* last byte received (rxSince); and, taken when the last resume byte was
\* written, the ticks since the resume byte before it (gap), since the last
\* such read (cfgGap) and since the last byte received (rxGap).  -1: none yet.
\* Of the enable commands: ticks since collection was switched off (offSince,
\* while it is off) and since it was switched on again (onSince), how long it
\* had been off then (onOff) and, taken when the last resume byte of the
\* supervisor was written, the ticks since it was switched on again (onGap).
NoSup == [n |-> 0, due |-> 0, skipped |-> 0, since |-> -1, gap |-> -1,
          cfgSince |-> -1, cfgGap |-> -1, rxSince |-> -1, rxGap |-> -1,
          offSince |-> -1, onSince |-> -1, onOff |-> -1, onGap |-> -1]

NoRequest ==
    LET none == [kind |-> "absent", val |-> 0]
    IN  [topic |-> "none", json |-> "bad", params |-> FALSE, id |-> "absent",
         enable |-> none, pga |-> none, mode |-> none, other |-> FALSE]

\* main.c:57-58, 61
WIFI_CONNECTED_BIT == 1
WIFI_FAIL_BIT      == 2
ESP_MAXIMUM_RETRY  == 5

\* Nothing has happened on the Wi-Fi side: n events handled, connects calls
\* of esp_wifi_connect, tries of them after a disconnect since the last
\* got-IP event, drops disconnect events since then, and the last event.
NoWifiLog == [n |-> 0, connects |-> 0, tries |-> 0, drops |-> 0, last |-> "none"]

InitCommon ==
    /\ count_i = 0
    /\ dat = 0
    /\ PoolFlag = 0
    /\ adc_pc = "idle"
    /\ adc_ret = -1
    /\ dout = TRUE
    /\ s_retry_num = 0
    /\ s_wifi_event_group = {}
    /\ wifi_log = NoWifiLog
    /\ g_collection_enable = TRUE
    /\ g_is_configuring = FALSE
    /\ state = 0
    /\ frame_buffer = [i \in 0..(FRAME_LEN - 1) |-> Uninit]
    /\ data_idx = 0
    /\ readings = <<>>
    /\ acks = <<>>
    /\ last10 = <<>>
    /\ emitted = FALSE
    /\ cur = NoItem
    /\ prev = Brief(NoItem)
    /\ clean = FRAME_LEN
    /\ tally = [good |-> 0, bad |-> 0, noisePair |-> FALSE, lastNoise |-> Uninit,
                first |-> <<>>, headPair |-> FALSE]
    /\ sup = NoSup
    /\ uart_rx = <<>>
    /\ inbox = <<>>
    /\ h_pc = "idle"
    /\ h_req = NoRequest
    /\ h_val = "0"
    /\ h_wait = 0
    /\ h_ticks = DelayTicks + 1
    /\ uart_ok = TRUE
    /\ mid = FALSE
    /\ h_seen = [req |-> NoRequest, en |-> TRUE]
    /\ rx_wait = 0
    /\ elapsed = 0

InitRx ==
    /\ InitCommon
    /\ mqtt_client \in BOOLEAN
    /\ rx_pc = "loop"
    /\ wire = <<>>
    /\ budget = [noise |-> MaxNoise, frames |-> MaxFrames, events |-> 0]

NextRx ==
    \/ \E b \in NoiseBytes : SensorNoise(b) /\ UNCHANGED <<rxVars, taskVars, flagVars, hVars, envVars, wire, sup>>
    \/ \E p \in Payloads, t \in Trailers :
          SensorFrame(p, t) /\ UNCHANGED <<rxVars, taskVars, flagVars, hVars, envVars, wire, sup>>
    \/ RxIteration

SpecRx == InitRx /\ [][NextRx]_vars

(***************************************************************************)
(* The UART transmit side: uart_write_bytes(UART_PORT_NUM, .., 1)          *)
(***************************************************************************)
\* Configuration sequences begun so far: the 'C' and 'F' bytes on the wire.
SeqCount(w) == Cardinality({i \in DOMAIN w : w[i].by = "cmd" /\ w[i].b \in {"C", "F"}})

\* One byte on the wire, with who wrote it (by: "init", "sup" or "cmd"), the
\* two flags as they were when it was written, the configuration sequence it
\* belongs to (0: none), whether the call succeeded (ok), for a byte of a
\* sequence whether it was written between two ticks of the clock (mid) and, for a byte that continues a
\* sequence, the ticks since the byte before it (gap).
Entry(b, by, seq) ==
    [b |-> b, by |-> by, cfg |-> g_is_configuring, en |-> g_collection_enable,
     seq |-> seq, ok |-> uart_ok, mid |-> mid /\ by = "cmd" /\ seq # 0,
     gap |-> IF by = "cmd" /\ seq # 0 /\ b \notin {"C", "F"} THEN h_ticks ELSE 0]

Write(b, by, seq) == wire' = Append(wire, Entry(b, by, seq))

(***************************************************************************)
(* rx_task, statement by statement (main.c:387-476)                        *)
(***************************************************************************)
rxKeep == <<flagVars, hVars, genVars, rxVars, envVars, uart_rx, budget>>

\* main.c:397
RxStart ==
    /\ rx_pc = "start"
    /\ elapsed' = 0
    /\ rx_pc' = "init_write"
    /\ UNCHANGED <<rxKeep, rx_wait, wire, sup>>

\* main.c:401
RxInitWrite ==
    /\ rx_pc = "init_write"
    /\ Write("A", "init", 0)
    /\ rx_pc' = "loop"
    /\ UNCHANGED <<rxKeep, rx_wait, elapsed, sup>>

\* Mutant of RxLoop: a pass that finds collection disabled reads all the same.
RxLoop_ReadsAnyway ==
    /\ rx_pc = "loop"
    /\ IF g_collection_enable
       THEN rx_pc' = "check_idle" /\ UNCHANGED rx_wait
       ELSE rx_pc' = "read" /\ rx_wait' = ReadTicks
    /\ UNCHANGED <<rxKeep, elapsed, wire, sup>>

\* main.c:405-408: the read of g_collection_enable, and the start of the pause
RxLoop ==
    /\ rx_pc = "loop"
    /\ IF g_collection_enable
       THEN rx_pc' = "check_idle" /\ UNCHANGED rx_wait
       ELSE rx_pc' = "pause" /\ rx_wait' = PauseTicks
    /\ UNCHANGED <<rxKeep, elapsed, wire, sup>>

\* main.c:406-407: vTaskDelay(1000 ms) ends, continue
RxPause ==
    /\ rx_pc = "pause"
    /\ rx_wait = 0
    /\ rx_pc' = "loop"
    /\ UNCHANGED <<rxKeep, rx_wait, elapsed, wire, sup>>

\* Mutant of RxCheckIdle: the threshold grows with every retry.
RxCheckIdle_Backoff ==
    /\ rx_pc = "check_idle"
    /\ IF elapsed > IdleTicks + sup.n
       THEN /\ rx_pc' = "check_cfg"
            /\ sup' = [sup EXCEPT !.due = @ + 1]
            /\ UNCHANGED rx_wait
       ELSE /\ rx_pc' = "read"
            /\ rx_wait' = ReadTicks
            /\ UNCHANGED sup
    /\ UNCHANGED <<rxKeep, elapsed, wire>>

\* main.c:411
RxCheckIdle ==
    /\ rx_pc = "check_idle"
    /\ IF elapsed > IdleTicks
       THEN /\ rx_pc' = "check_cfg"
            /\ sup' = [sup EXCEPT !.due = @ + 1]
            /\ UNCHANGED rx_wait
       ELSE /\ rx_pc' = "read"
            /\ rx_wait' = ReadTicks
            /\ UNCHANGED sup
    /\ UNCHANGED <<rxKeep, elapsed, wire>>

\* Mutant of RxCheckCfg: the timer is reset only on the branch that writes.
RxCheckCfg_ResetOnlyOnWrite ==
    /\ rx_pc = "check_cfg"
    /\ IF ~ g_is_configuring
       THEN rx_pc' = "resend" /\ UNCHANGED <<sup, rx_wait>>
       ELSE /\ rx_pc' = "read"
            /\ rx_wait' = ReadTicks
            /\ sup' = [sup EXCEPT !.skipped = @ + 1, !.cfgSince = 0]
    /\ UNCHANGED <<rxKeep, elapsed, wire>>

\* main.c:412: the read of g_is_configuring
RxCheckCfg ==
    /\ rx_pc = "check_cfg"
    /\ IF ~ g_is_configuring
       THEN rx_pc' = "resend" /\ UNCHANGED sup
       ELSE /\ rx_pc' = "refresh"
            /\ sup' = [sup EXCEPT !.skipped = @ + 1, !.cfgSince = 0]
    /\ UNCHANGED <<rxKeep, rx_wait, elapsed, wire>>

\* main.c:413-414
RxResend ==
    /\ rx_pc = "resend"
    /\ Write("A", "sup", 0)
    /\ sup' = [sup EXCEPT !.n = @ + 1, !.gap = sup.since, !.since = 0,
                         !.cfgGap = sup.cfgSince, !.rxGap = sup.rxSince,
                         !.onGap = sup.onSince]
    /\ rx_pc' = "refresh"
    /\ UNCHANGED <<rxKeep, rx_wait, elapsed>>

\* Mutant of RxRefresh: the idle timer is not reset.
RxRefresh_NoReset ==
    /\ rx_pc = "refresh"
    /\ rx_pc' = "read"
    /\ rx_wait' = ReadTicks
    /\ UNCHANGED <<rxKeep, elapsed, wire, sup>>

\* main.c:416, and the start of the read of main.c:420
RxRefresh ==
    /\ rx_pc = "refresh"
    /\ elapsed' = 0
    /\ rx_pc' = "read"
    /\ rx_wait' = ReadTicks
    /\ UNCHANGED <<rxKeep, wire, sup>>

\* Mutant of RxRead: only a byte that completes a valid frame is timestamped.
RxRead_StampOnReadingOnly ==
    /\ rx_pc = "read"
    /\ \/ /\ uart_rx # <<>>
          /\ Ingest(Head(uart_rx))
          /\ uart_rx' = Tail(uart_rx)
          /\ elapsed' = IF state = 2 /\ data_idx = FRAME_LEN - 1
                            /\ frame_buffer[8] = TRAILER1 /\ Head(uart_rx) = TRAILER2
                         THEN 0 ELSE elapsed
          /\ sup' = [sup EXCEPT !.rxSince = 0]
       \/ /\ uart_rx = <<>>
          /\ rx_wait = 0
          /\ UNCHANGED <<rxVars, uart_rx, elapsed, sup>>
    /\ rx_pc' = "loop"
    /\ UNCHANGED <<flagVars, hVars, genVars, envVars, budget, rx_wait, wire>>

\* main.c:420-473: uart_read_bytes returns one byte, which is timestamped and
\* goes through the receiver, or returns 0 after its time-out.
RxRead ==
    /\ rx_pc = "read"
    /\ \/ /\ uart_rx # <<>>
          /\ Ingest(Head(uart_rx))
          /\ uart_rx' = Tail(uart_rx)
          /\ elapsed' = 0
          /\ sup' = [sup EXCEPT !.rxSince = 0]
       \/ /\ uart_rx = <<>>
          /\ rx_wait = 0
          /\ UNCHANGED <<rxVars, uart_rx, elapsed, sup>>
    /\ rx_pc' = "loop"
    /\ UNCHANGED <<flagVars, hVars, genVars, envVars, budget, rx_wait, wire>>

(***************************************************************************)
(* Requests on the property-set topic                                      *)
(***************************************************************************)
Absent   == [kind |-> "absent", val |-> 0]
\* A JSON number, held in tenths: Num(2) is 2, Tenths(25) is 2.5.
Num(v)   == [kind |-> "number", val |-> 10 * v]
Tenths(t) == [kind |-> "number", val |-> t]
JTrue    == [kind |-> "true", val |-> 0]
JFalse   == [kind |-> "false", val |-> 0]
JString  == [kind |-> "string", val |-> 0]
JNull    == [kind |-> "null", val |-> 0]

\* other: params holds fields under names the handler never looks up, such
\* as "gain" or "rate" (it looks up "enable", "pga" and "mode" only).
SetRequest(id, enable, pga, mode) ==
    [topic |-> "set", json |-> "ok", params |-> TRUE, id |-> id,
     enable |-> enable, pga |-> pga, mode |-> mode, other |-> FALSE]

\* The requests the broker delivers while both tasks run.
Requests ==
    { SetRequest("r1", Absent, Num(2), Absent),
      SetRequest("r2", Absent, Num(64), Num(1)),
      SetRequest("r3", JFalse, Absent, Absent) }

\* cJSON's valueint of a number item (main.c:235, 253, 285): the number
\* converted to int, which drops the fraction (the saturation at INT_MAX and
\* INT_MIN is out of the range of the numbers used here).
ValueInt(f) == IF f.val >= 0 THEN f.val \div 10 ELSE - ((- f.val) \div 10)

\* main.c:235
EnableOn(e) == e.kind = "true" \/ (e.kind = "number" /\ ValueInt(e) = 1)

\* Mutant of PgaChar: the bytes of gains 64 and 128 are exchanged.
PgaChar_Swapped(v) ==
    CASE v = 1   -> "0"
      [] v = 2   -> "1"
      [] v = 64  -> "3"
      [] v = 128 -> "2"
      [] OTHER   -> "0"

\* Mutant of ModeChar: the digit is one more than the mode.
ModeChar_OneBased(v) == <<"1", "2", "3", "4">>[v + 1]

\* main.c:251-260
PgaValid(f) == f.kind = "number" /\ ValueInt(f) \in {1, 2, 64, 128}
PgaChar(v) ==
    CASE v = 1   -> "0"
      [] v = 2   -> "1"
      [] v = 64  -> "2"
      [] v = 128 -> "3"
      [] OTHER   -> "0"

\* main.c:283-289
ModeValid(f) == f.kind = "number" /\ ValueInt(f) >= 0 /\ ValueInt(f) <= 3
ModeChar(v) == <<"0", "1", "2", "3">>[v + 1]

\* main.c:306: the "code" and the "msg" of every set_reply
REPLY_CODE == 200
REPLY_MSG  == "success"
\* main.c:305: char reply_data[128]
REPLY_BUF  == 128
\* main.c:306: the length of the format {"id":"%s","code":200,"msg":"success"}
\* without its %s
ReplyFixedLen == 36
\* The ids of the requests: a short string, a string of LongIdLen
\* characters, a number, and no id at all.
LongIdLen == 100
IdLen(id) == CASE id = "r1" -> 2 [] id = "long" -> LongIdLen [] OTHER -> 0
\* main.c:306: snprintf stores at most REPLY_BUF - 1 characters and cuts the
\* rest off.
ReplyFits(id) == ReplyFixedLen + IdLen(id) < REPLY_BUF
\* main.c:306-307: the set_reply published for a request: the id it was
\* built from and, when the text is whole, the code and the message it
\* holds; a text that was cut is no JSON text and holds neither.
SetReply(id, pend) ==
    [id |-> id,
     code |-> IF ReplyFits(id) THEN REPLY_CODE ELSE 0,
     msg  |-> IF ReplyFits(id) THEN REPLY_MSG ELSE "",
     pend |-> pend]

\* main.c:304
IsStringId(id) == id \notin {"absent", "number"}

(***************************************************************************)
(* mqtt_event_handler on MQTT_EVENT_DATA, statement by statement           *)
(* (main.c:208-315); the MQTT client task runs one event at a time.        *)
(***************************************************************************)
hKeep == <<rxVars, taskVars, genVars, envVars, bootVars, adcVars, uart_rx, sup, budget>>
hKeepButSup == <<rxVars, taskVars, genVars, envVars, bootVars, adcVars, uart_rx, budget>>

\* The history of the enable commands when g_collection_enable is stored.
Switched(on) ==
    IF on = g_collection_enable THEN sup
    ELSE IF on THEN [sup EXCEPT !.onSince = 0, !.onOff = sup.offSince, !.offSince = -1]
    ELSE [sup EXCEPT !.offSince = 0]

\* The broker delivers a request: an MQTT_EVENT_DATA is queued for the task.
Deliver(r) ==
    /\ budget.events > 0
    /\ budget' = [budget EXCEPT !.events = @ - 1]
    /\ inbox' = Append(inbox, r)
    /\ UNCHANGED <<flagVars, rxVars, taskVars, genVars, uart_rx, wire, sup,
                   h_pc, h_req, h_val, h_wait, h_ticks, acks,
                   envVars>>

\* main.c:226: cJSON_Parse(event->data) is given no length, and event->data
\* is not NUL-terminated (main.c:216-217, 224 print it with data_len).  A
\* payload that is a complete JSON text parses ("ok"); one that no following
\* bytes can complete does not ("bad"); one that stops short ("cut") is read
\* on into the bytes that follow it in the receive buffer, and parses or not
\* depending on them.  TRUE: root is not NULL.
Parse(r) ==
    CASE r.json = "ok"  -> {TRUE}
      [] r.json = "cut" -> {TRUE, FALSE}
      [] OTHER          -> {FALSE}

\* The topic of main.c:221-222, "$sys/6R9kiumZF1/ESP32/thing/property/set",
\* in pieces.
SET_TOPIC == <<"$sys", "6R9kiumZF1", "ESP32", "thing", "property", "set">>

\* The text of the topics messages arrive on: the property-set topic, the
\* topic the replies go to (the property-set topic followed by "_reply"),
\* the topic of the receipts of the telemetry, the property-set topic without
\* its last piece, and a topic of another device.
TopicText(t) ==
    CASE t = "set"        -> SET_TOPIC
      [] t = "set_reply"  -> SET_TOPIC \o <<"_reply">>
      [] t = "post_reply" -> SubSeq(SET_TOPIC, 1, 5) \o <<"post", "reply">>
      [] t = "property"   -> SubSeq(SET_TOPIC, 1, 5)
      [] t = "other"      -> <<"$sys", "6R9kiumZF1", "ESP8266", "thing", "property", "set">>
      [] OTHER            -> <<>>

\* Mutant of TopicIsSet: memcmp over the length of the property-set topic,
\* without the test of topic_len.
TopicIsSet_Prefix(t) ==
    LET x == TopicText(t)
    IN  /\ Len(x) >= Len(SET_TOPIC)
        /\ \A i \in 1..Len(SET_TOPIC) : x[i] = SET_TOPIC[i]

\* main.c:221-222: topic_len equals the length of the property-set topic and
\* memcmp over topic_len finds no difference.
TopicIsSet(t) ==
    LET x == TopicText(t)
    IN  /\ Len(x) = Len(SET_TOPIC)
        /\ \A i \in 1..Len(x) : x[i] = SET_TOPIC[i]

\* main.c:208-230: topic filter, cJSON_Parse, params
HTake ==
    /\ h_pc = "idle"
    /\ inbox # <<>>
    /\ inbox' = Tail(inbox)
    /\ LET r == Head(inbox)
       IN  \E root \in Parse(r) :
             IF TopicIsSet(r.topic) /\ root
             THEN h_req' = r /\ h_pc' = IF r.params THEN "enable" ELSE "reply"
             ELSE h_req' = NoRequest /\ h_pc' = "idle"
    /\ UNCHANGED <<hKeep, h_ticks, g_collection_enable, g_is_configuring, h_val, h_wait, acks, wire>>

\* Mutant of HEnable: params without an enable field stops the collection.
HEnable_AbsentMeansStop ==
    /\ h_pc = "enable"
    /\ h_pc' = "enable_write"
    /\ g_collection_enable' = EnableOn(h_req.enable)
    /\ sup' = Switched(EnableOn(h_req.enable))
    /\ UNCHANGED <<hKeepButSup, h_ticks, g_is_configuring, h_req, h_val, h_wait, inbox, acks, wire>>

\* main.c:232-236, 240: the enable field and the store to g_collection_enable
HEnable ==
    /\ h_pc = "enable"
    /\ IF h_req.enable.kind = "absent"
       THEN h_pc' = "pga" /\ UNCHANGED <<g_collection_enable, sup>>
       ELSE /\ h_pc' = "enable_write"
            /\ g_collection_enable' = EnableOn(h_req.enable)
            /\ sup' = Switched(EnableOn(h_req.enable))
    /\ UNCHANGED <<hKeepButSup, h_ticks, g_is_configuring, h_req, h_val, h_wait, inbox, acks, wire>>

\* Mutant of HEnableWrite: the resume byte is written for either value.
HEnableWrite_AlwaysResume ==
    /\ h_pc = "enable_write"
    /\ Write("A", "cmd", 0)
    /\ h_pc' = "pga"
    /\ h_ticks' = 0
    /\ UNCHANGED <<hKeep, g_collection_enable, g_is_configuring, h_req, h_val, h_wait, inbox, acks>>

\* main.c:237, 241
HEnableWrite ==
    /\ h_pc = "enable_write"
    /\ Write(IF EnableOn(h_req.enable) THEN "A" ELSE "S", "cmd", 0)
    /\ h_pc' = "pga"
    /\ h_ticks' = 0
    /\ UNCHANGED <<hKeep, g_collection_enable, g_is_configuring, h_req, h_val, h_wait, inbox, acks>>

\* Mutant of HPga: an invalid pga field ends the handling of the params.
HPga_InvalidEndsParams ==
    /\ h_pc = "pga"
    /\ IF PgaValid(h_req.pga)
       THEN /\ h_val' = PgaChar(ValueInt(h_req.pga))
            /\ g_is_configuring' = TRUE
            /\ h_pc' = "pga_C"
       ELSE /\ h_pc' = IF h_req.pga.kind = "absent" THEN "mode" ELSE "reply"
            /\ UNCHANGED <<h_val, g_is_configuring>>
    /\ UNCHANGED <<hKeep, h_ticks, g_collection_enable, h_req, h_wait, inbox, acks, wire>>

\* main.c:250-263: the pga field, val_char, and g_is_configuring = true
HPga ==
    /\ h_pc = "pga"
    /\ IF PgaValid(h_req.pga)
       THEN /\ h_val' = PgaChar(ValueInt(h_req.pga))
            /\ g_is_configuring' = TRUE
            /\ h_pc' = "pga_C"
       ELSE /\ h_pc' = "mode"
            /\ UNCHANGED <<h_val, g_is_configuring>>
    /\ UNCHANGED <<hKeep, h_ticks, g_collection_enable, h_req, h_wait, inbox, acks, wire>>

\* main.c:265-266: 'C', then vTaskDelay(100 ms)
HPgaMenu ==
    /\ h_pc = "pga_C"
    /\ Write("C", "cmd", SeqCount(wire) + 1)
    /\ h_wait' = DelayTicks
    /\ h_pc' = "pga_1"
    /\ h_ticks' = 0
    /\ UNCHANGED <<hKeep, g_collection_enable, g_is_configuring, h_req, h_val, inbox, acks>>

\* Mutant of HPgaSelect: the submenu byte '1' is left out.
HPgaSelect_Skipped ==
    /\ h_pc = "pga_1"
    /\ h_wait = 0
    /\ h_wait' = DelayTicks
    /\ h_pc' = "pga_v"
    /\ UNCHANGED <<hKeep, h_ticks, g_collection_enable, g_is_configuring, h_req, h_val, inbox, acks, wire>>

\* main.c:266-270: the delay ends; '1', then vTaskDelay(100 ms)
HPgaSelect ==
    /\ h_pc = "pga_1"
    /\ h_wait = 0
    /\ Write("1", "cmd", SeqCount(wire))
    /\ h_wait' = DelayTicks
    /\ h_pc' = "pga_v"
    /\ h_ticks' = 0
    /\ UNCHANGED <<hKeep, g_collection_enable, g_is_configuring, h_req, h_val, inbox, acks>>

\* main.c:270-273: the delay ends; the value byte
HPgaValue ==
    /\ h_pc = "pga_v"
    /\ h_wait = 0
    /\ Write(h_val, "cmd", SeqCount(wire))
    /\ h_pc' = "pga_end"
    /\ h_ticks' = 0
    /\ UNCHANGED <<hKeep, g_collection_enable, g_is_configuring, h_req, h_val, h_wait, inbox, acks>>

\* Mutant of HPgaEnd: g_is_configuring is not cleared.
HPgaEnd_FlagKept ==
    /\ h_pc = "pga_end"
    /\ h_val' = "0"
    /\ h_pc' = "mode"
    /\ UNCHANGED <<hKeep, h_ticks, g_collection_enable, g_is_configuring, h_req, h_wait, inbox, acks, wire>>

\* main.c:274, 277: the flag is cleared and val_char goes out of scope
HPgaEnd ==
    /\ h_pc = "pga_end"
    /\ g_is_configuring' = FALSE
    /\ h_val' = "0"
    /\ h_pc' = "mode"
    /\ UNCHANGED <<hKeep, h_ticks, g_collection_enable, h_req, h_wait, inbox, acks, wire>>

\* main.c:282-291: the mode field, val_char, and g_is_configuring = true
HMode ==
    /\ h_pc = "mode"
    /\ IF ModeValid(h_req.mode)
       THEN /\ h_val' = ModeChar(ValueInt(h_req.mode))
            /\ g_is_configuring' = TRUE
            /\ h_pc' = "mode_F"
       ELSE /\ h_pc' = "reply"
            /\ UNCHANGED <<h_val, g_is_configuring>>
    /\ UNCHANGED <<hKeep, h_ticks, g_collection_enable, h_req, h_wait, inbox, acks, wire>>

\* Mutant of HModeMenu: the set_reply is published with the 'F' byte.
HModeMenu_AcksEarly ==
    /\ h_pc = "mode_F"
    /\ Write("F", "cmd", SeqCount(wire) + 1)
    /\ acks' = Append(acks, SetReply(h_req.id, Len(inbox)))
    /\ h_wait' = DelayTicks
    /\ h_pc' = "mode_v"
    /\ h_ticks' = 0
    /\ UNCHANGED <<hKeep, g_collection_enable, g_is_configuring, h_req, h_val, inbox>>

\* main.c:292-293: 'F', then vTaskDelay(100 ms)
HModeMenu ==
    /\ h_pc = "mode_F"
    /\ Write("F", "cmd", SeqCount(wire) + 1)
    /\ h_wait' = DelayTicks
    /\ h_pc' = "mode_v"
    /\ h_ticks' = 0
    /\ UNCHANGED <<hKeep, g_collection_enable, g_is_configuring, h_req, h_val, inbox, acks>>

\* main.c:293-294: the delay ends; the value byte
HModeValue ==
    /\ h_pc = "mode_v"
    /\ h_wait = 0
    /\ Write(h_val, "cmd", SeqCount(wire))
    /\ h_pc' = "mode_end"
    /\ h_ticks' = 0
    /\ UNCHANGED <<hKeep, g_collection_enable, g_is_configuring, h_req, h_val, h_wait, inbox, acks>>

\* Mutant of HModeEnd: g_is_configuring is not cleared after the rate digit.
HModeEnd_FlagKept ==
    /\ h_pc = "mode_end"
    /\ h_val' = "0"
    /\ h_pc' = "reply"
    /\ UNCHANGED <<hKeep, h_ticks, g_collection_enable, g_is_configuring, h_req, h_wait, inbox, acks, wire>>

\* main.c:295, 298: the flag is cleared and val_char goes out of scope
HModeEnd ==
    /\ h_pc = "mode_end"
    /\ g_is_configuring' = FALSE
    /\ h_val' = "0"
    /\ h_pc' = "reply"
    /\ UNCHANGED <<hKeep, h_ticks, g_collection_enable, h_req, h_wait, inbox, acks, wire>>

\* Mutant of HReply: publishing the set_reply switches collection on again.
HReply_ResumesCollection ==
    /\ h_pc = "reply"
    /\ acks' = IF IsStringId(h_req.id)
               THEN Append(acks, SetReply(h_req.id, Len(inbox)))
               ELSE acks
    /\ g_collection_enable' = TRUE
    /\ h_req' = NoRequest
    /\ h_pc' = "idle"
    /\ UNCHANGED <<hKeep, h_ticks, g_is_configuring, h_val, h_wait, inbox, wire>>

\* Mutant of HReply: no set_reply for a request that wrote nothing.
HReply_OnlyIfWritten ==
    /\ h_pc = "reply"
    /\ acks' = IF IsStringId(h_req.id) /\ wire # <<>>
               THEN Append(acks, SetReply(h_req.id, Len(inbox)))
               ELSE acks
    /\ h_req' = NoRequest
    /\ h_pc' = "idle"
    /\ UNCHANGED <<hKeep, h_ticks, g_collection_enable, g_is_configuring, h_val, h_wait, inbox, wire>>

\* main.c:302-310: the set_reply carrying the request's id
HReply ==
    /\ h_pc = "reply"
    /\ acks' = IF IsStringId(h_req.id)
               THEN Append(acks, SetReply(h_req.id, Len(inbox)))
               ELSE acks
    /\ h_req' = NoRequest
    /\ h_pc' = "idle"
    /\ UNCHANGED <<hKeep, h_ticks, g_collection_enable, g_is_configuring, h_val, h_wait, inbox, wire>>

(***************************************************************************)
(* Both tasks, the clock and the environment                               *)
(***************************************************************************)
\* A task is blocked when it waits in vTaskDelay, in uart_read_bytes with no
\* byte queued, or (the MQTT task) for the next event.
RxBlocked ==
    \/ rx_pc = "pause" /\ rx_wait > 0
    \/ rx_pc = "read" /\ uart_rx = <<>> /\ rx_wait > 0
HBlocked ==
    \/ h_pc = "idle" /\ inbox = <<>>
    \/ h_pc \in {"pga_1", "pga_v", "mode_v"} /\ h_wait > 0

\* The timers of both tasks after one tick of the FreeRTOS clock.
Clock ==
    /\ elapsed' = Min(elapsed + 1, TimerCap)
    /\ rx_wait' = IF rx_wait > 0 THEN rx_wait - 1 ELSE 0
    /\ h_wait' = IF h_wait > 0 THEN h_wait - 1 ELSE 0
    /\ h_ticks' = IF h_ticks <= DelayTicks THEN h_ticks + 1 ELSE h_ticks
    /\ mid' = FALSE
    /\ UNCHANGED <<uart_ok, h_seen>>
    /\ UNCHANGED <<flagVars, rxVars, genVars, uart_rx, rx_pc,
                   h_pc, h_req, h_val, inbox, acks>>

\* The supervisor's record one tick later.
Aged(s) ==
    [s EXCEPT !.since = Age(@), !.cfgSince = Age(@), !.rxSince = Age(@),
              !.offSince = Age(@), !.onSince = Age(@)]

\* One tick of the FreeRTOS clock.  Delays and time-outs end no earlier than
\* their tick.  A task that can run usually does so within the tick; it is
\* held up for a whole tick (other tasks, the scheduler) only as an event of
\* the environment.
Tick ==
    /\ sup.n < MaxRetries
    /\ \/ RxBlocked /\ HBlocked /\ UNCHANGED budget
       \/ ~ (RxBlocked /\ HBlocked) /\ budget.events > 0
            /\ budget' = [budget EXCEPT !.events = @ - 1]
    /\ Clock
    /\ sup' = Aged(sup)
    /\ UNCHANGED wire

\* Bytes the sensor sends while both tasks run.
LinkBytes == {PREAMBLE1, 1}

\* The sensor sends one byte; the UART driver queues it for uart_read_bytes.
LinkByte(b) ==
    /\ budget.events > 0
    /\ budget' = [budget EXCEPT !.events = @ - 1]
    /\ uart_rx' = Append(uart_rx, b)
    /\ UNCHANGED <<rxVars, taskVars, flagVars, hVars, genVars, envVars, wire, sup>>

Init ==
    /\ InitCommon
    /\ mqtt_client = TRUE
    /\ rx_pc = "start"
    /\ wire = <<>>
    /\ budget = [noise |-> 0, frames |-> 0, events |-> MaxEvents]

RxNext ==
    \/ RxStart \/ RxInitWrite \/ RxLoop \/ RxPause \/ RxCheckIdle
    \/ RxCheckCfg \/ RxResend \/ RxRefresh \/ RxRead

HNext ==
    \/ HTake \/ HEnable \/ HEnableWrite
    \/ HPga \/ HPgaMenu \/ HPgaSelect \/ HPgaValue \/ HPgaEnd
    \/ HMode \/ HModeMenu \/ HModeValue \/ HModeEnd
    \/ HReply

Next ==
    \/ Tick
    \/ \E b \in LinkBytes : LinkByte(b)
    \/ \E r \in Requests : Deliver(r)
    \/ RxNext
    \/ HNext

Spec == Init /\ [][Next]_vars

(***************************************************************************)
(* rx_task and the clock, the sensor sending byte by byte                  *)
(***************************************************************************)
\* What the sensor sends: a byte that matches nothing, then the window
\* AA 55 <2.5 V, gain code 2> 0D and a last byte that makes the trailer good
\* (0A) or bad (0D).
StreamHead == <<1, PREAMBLE1, PREAMBLE2, 0, 0, 32, 64, 2, 0, TRAILER1>>
StreamLast == {TRAILER2, TRAILER1}
StreamLen  == Len(StreamHead) + 1

\* The sensor sends its next byte, any time after rx_task has taken the one
\* before; budget.noise counts the bytes it has still to send.
SensorByte(b) ==
    /\ uart_rx = <<>>
    /\ budget.noise > 0
    /\ b \in (IF budget.noise > 1
              THEN {StreamHead[StreamLen + 1 - budget.noise]}
              ELSE StreamLast)
    /\ uart_rx' = <<b>>
    /\ budget' = [budget EXCEPT !.noise = @ - 1]
    /\ UNCHANGED <<rxVars, taskVars, flagVars, hVars, genVars, envVars, wire, sup>>

InitRxTime ==
    /\ InitCommon
    /\ mqtt_client = TRUE
    /\ rx_pc = "start"
    /\ wire = <<>>
    /\ budget = [noise |-> StreamLen, frames |-> 0, events |-> 0]

\* Collection stays enabled and no request arrives: the steps of rx_task
\* (all but the pause of main.c:406), the sensor and the clock.
NextRxTime ==
    \/ Tick
    \/ \E b \in StreamLast \cup {StreamHead[i] : i \in DOMAIN StreamHead} : SensorByte(b)
    \/ RxStart \/ RxInitWrite \/ RxLoop \/ RxCheckIdle
    \/ RxCheckCfg \/ RxResend \/ RxRefresh \/ RxRead

SpecRxTime == InitRxTime /\ [][NextRxTime]_vars

(***************************************************************************)
(* Both tasks and the clock, the sensor silent, enable commands only       *)
(***************************************************************************)
\* The requests that switch collection off and on again.
EnableRequests ==
    { SetRequest("r1", JFalse, Absent, Absent),
      SetRequest("r1", JTrue, Absent, Absent) }

\* The steps of rx_task, the steps the handler takes for a request with an
\* enable field only, the broker and the clock.
NextEnable ==
    \/ Tick
    \/ \E r \in EnableRequests : Deliver(r)
    \/ RxNext
    \/ HTake \/ HEnable \/ HEnableWrite \/ HPga \/ HMode \/ HReply

SpecEnable == Init /\ [][NextEnable]_vars

(***************************************************************************)
(* rx_task and the clock for ever: the sensor silent, no request           *)
(***************************************************************************)
\* One tick of the clock while rx_task waits in uart_read_bytes.  The record
\* of the bytes written is kept for MaxRetries resume bytes of the supervisor
\* and then starts again.
TickIdle ==
    /\ RxBlocked /\ HBlocked
    /\ Clock
    /\ IF sup.n < MaxRetries
       THEN sup' = Aged(sup) /\ UNCHANGED wire
       ELSE /\ sup' = [Aged(sup) EXCEPT !.n = 0, !.due = 0, !.skipped = 0]
            /\ wire' = <<>>
    /\ UNCHANGED budget

\* The steps rx_task takes while g_collection_enable stays true.
RxNextIdle ==
    \/ RxStart \/ RxInitWrite \/ RxLoop \/ RxCheckIdle
    \/ RxCheckCfg \/ RxResend \/ RxRefresh \/ RxRead

NextIdle == TickIdle \/ RxNextIdle

\* rx_task is the only task that can run and runs when it can; time passes.
SpecIdle == Init /\ [][NextIdle]_vars /\ WF_vars(RxNextIdle) /\ WF_vars(TickIdle)

(***************************************************************************)
(* The Wi-Fi event handler, event_handler (main.c:65-86)                   *)
(***************************************************************************)
wifiKeep == <<g_collection_enable, g_is_configuring, mqtt_client, adcVars, rxVars,
              taskVars, hVars, envVars, genVars, uart_rx, wire, sup, budget>>

\* main.c:68-69: WIFI_EVENT_STA_START, posted once by esp_wifi_start()
WifiStaStart ==
    /\ wifi_log.n < MaxWifiEvents
    /\ wifi_log.last = "none"
    /\ wifi_log' = [wifi_log EXCEPT !.n = @ + 1, !.connects = @ + 1, !.last = "start"]
    /\ UNCHANGED <<wifiKeep, s_retry_num, s_wifi_event_group>>

\* Mutant of WifiDisconnected: the test is <= instead of <.
WifiDisconnected_OneMore ==
    /\ wifi_log.n < MaxWifiEvents
    /\ wifi_log.last # "none"
    /\ IF s_retry_num <= ESP_MAXIMUM_RETRY
       THEN /\ s_retry_num' = s_retry_num + 1
            /\ wifi_log' = [wifi_log EXCEPT !.n = @ + 1, !.connects = @ + 1,
                                            !.tries = @ + 1, !.drops = @ + 1,
                                            !.last = "disconnected"]
            /\ UNCHANGED s_wifi_event_group
       ELSE /\ s_wifi_event_group' = s_wifi_event_group \cup {WIFI_FAIL_BIT}
            /\ wifi_log' = [wifi_log EXCEPT !.n = @ + 1, !.drops = @ + 1,
                                            !.last = "disconnected"]
            /\ UNCHANGED s_retry_num
    /\ UNCHANGED wifiKeep

\* main.c:70-78: WIFI_EVENT_STA_DISCONNECTED
WifiDisconnected ==
    /\ wifi_log.n < MaxWifiEvents
    /\ wifi_log.last # "none"
    /\ IF s_retry_num < ESP_MAXIMUM_RETRY
       THEN /\ s_retry_num' = s_retry_num + 1
            /\ wifi_log' = [wifi_log EXCEPT !.n = @ + 1, !.connects = @ + 1,
                                            !.tries = @ + 1, !.drops = @ + 1,
                                            !.last = "disconnected"]
            /\ UNCHANGED s_wifi_event_group
       ELSE /\ s_wifi_event_group' = s_wifi_event_group \cup {WIFI_FAIL_BIT}
            /\ wifi_log' = [wifi_log EXCEPT !.n = @ + 1, !.drops = @ + 1,
                                            !.last = "disconnected"]
            /\ UNCHANGED s_retry_num
    /\ UNCHANGED wifiKeep

\* main.c:79-84: IP_EVENT_STA_GOT_IP
WifiGotIp ==
    /\ wifi_log.n < MaxWifiEvents
    /\ wifi_log.last # "none"
    /\ s_retry_num' = 0
    /\ s_wifi_event_group' = s_wifi_event_group \cup {WIFI_CONNECTED_BIT}
    /\ wifi_log' = [wifi_log EXCEPT !.n = @ + 1, !.tries = 0, !.drops = 0,
                                    !.last = "got_ip"]
    /\ UNCHANGED wifiKeep

\* wifi_init_sta() runs before the MQTT client and rx_task exist
\* (main.c:500-508).
InitWifi ==
    /\ InitCommon
    /\ mqtt_client = FALSE
    /\ rx_pc = "start"
    /\ wire = <<>>
    /\ budget = [noise |-> 0, frames |-> 0, events |-> 0]

NextWifi == WifiStaStart \/ WifiDisconnected \/ WifiGotIp

SpecWifi == InitWifi /\ [][NextWifi]_vars

(***************************************************************************)
(* The sensor side: Read_CS1237 (cs1237.c:178-242)                         *)
(***************************************************************************)
adcKeep == <<g_collection_enable, g_is_configuring, bootVars, rxVars, taskVars,
             hVars, envVars, genVars, uart_rx, wire, sup, budget>>

\* cs1237.c:191, the number count_i is compared with
POLL_LIMIT == 300
\* unsigned char: 8 bits
UCHAR_RANGE == 256
\* the weight of bit 23, the sign of a sample, and the range of 24 bits
SIGN_BIT == 8388608
RANGE_24 == 16777216

\* What the ADC shifts out in 24 clocks: zero, a small and the largest
\* positive sample, the most negative sample and minus one.
AdcSamples == {0, 1, SIGN_BIT - 1, SIGN_BIT, RANGE_24 - 1}

\* cs1237.c:178-185: the call, with count_i = 0 and dat = 0
AdcCall ==
    /\ adc_pc \in {"idle", "timeout", "done"}
    /\ count_i' = 0
    /\ dat' = 0
    /\ adc_pc' = "wait_high"
    /\ UNCHANGED <<adcKeep, PoolFlag, adc_ret, dout>>

\* cs1237.c:186: the loop that waits while the pin reads 0
AdcWaitHigh ==
    /\ adc_pc = "wait_high"
    /\ dout
    /\ adc_pc' = "wait_low"
    /\ UNCHANGED <<adcKeep, count_i, dat, PoolFlag, adc_ret, dout>>

\* cs1237.c:187-198: one test of the pin and, while it reads 1, one pass of
\* the loop: the delay, count_i++ in 8 bits, and the test count_i > 300 with
\* the return of 0.
AdcPoll ==
    /\ adc_pc = "wait_low"
    /\ IF ~ dout
       THEN adc_pc' = "read" /\ UNCHANGED <<count_i, adc_ret>>
       ELSE /\ count_i' = (count_i + 1) % UCHAR_RANGE
            /\ IF count_i' > POLL_LIMIT
               THEN adc_pc' = "timeout" /\ adc_ret' = 0
               ELSE adc_pc' = "wait_low" /\ UNCHANGED adc_ret
    /\ UNCHANGED <<adcKeep, dat, PoolFlag, dout>>

\* cs1237.c:199-242: 24 bits are shifted in, a negative sample is replaced by
\* its magnitude with PoolFlag = 1, and dat is returned.  The ADC lets its
\* data line go once the sample is read.
AdcRead ==
    /\ adc_pc = "read"
    /\ \E raw \in AdcSamples :
          /\ dat' = IF raw >= SIGN_BIT THEN (RANGE_24 - raw) % RANGE_24 ELSE raw
          /\ PoolFlag' = IF raw >= SIGN_BIT THEN 1 ELSE 0
    /\ adc_ret' = dat'
    /\ adc_pc' = "done"
    /\ dout' = TRUE
    /\ UNCHANGED <<adcKeep, count_i>>

\* The ADC has a sample ready and pulls its data line low.
AdcDataReady ==
    /\ dout
    /\ adc_pc # "read"
    /\ dout' = FALSE
    /\ UNCHANGED <<adcKeep, count_i, dat, PoolFlag, adc_pc, adc_ret>>

AdcNext == AdcCall \/ AdcWaitHigh \/ AdcPoll \/ AdcRead

\* The sensor's processor runs Read_CS1237 without interruption; the ADC may
\* or may not have a sample.
SpecAdc ==
    /\ InitWifi
    /\ [][AdcNext \/ AdcDataReady]_vars
    /\ WF_vars(AdcNext)

(***************************************************************************)
(* The handler alone: one request at a time, of any shape                  *)
(***************************************************************************)
Ids     == {"r1", "long", "number", "absent"}
Enables == {JTrue, JFalse, Num(1), Num(0), Num(2), Tenths(15), JString, JNull}
Gains   == {Num(1), Num(2), Num(64), Num(128), Num(7), Tenths(25), JString}
Modes   == {Num(0), Num(1), Num(2), Num(3), Num(4), Tenths(-5), JString}

\* Requests on the property-set topic with a params object: one field with
\* every kind of value, and all three fields together.
FieldRequests ==
    {SetRequest(id, e, Absent, Absent) : id \in Ids, e \in Enables \cup {Absent}}
    \cup {SetRequest("r1", Absent, g, Absent) : g \in Gains}
    \cup {SetRequest("r1", Absent, Absent, m) : m \in Modes}
    \cup {SetRequest("r1", e, g, m) : e \in {JTrue, JFalse},
                                      g \in {Num(64), Num(7)},
                                      m \in {Num(3), Num(4)}}

\* The topics other than the property-set topic.
OtherTopics == {"set_reply", "post_reply", "property", "other"}

\* Other messages: another topic, a JSON text without params, a payload that
\* is no JSON text, and a request that stops short of its end.
OtherRequests ==
    { [SetRequest("r1", JFalse, Num(2), Absent) EXCEPT !.topic = t] : t \in OtherTopics }
    \cup
    { [SetRequest("r1", Absent, Absent, Absent) EXCEPT !.params = FALSE],
      [SetRequest("r1", JFalse, Num(2), Absent) EXCEPT !.json = "bad"],
      [SetRequest("r1", JFalse, Num(2), Absent) EXCEPT !.json = "cut"] }

\* Requests whose params hold only fields the handler does not look up, and
\* one that holds such a field next to a gain.
UnknownFieldRequests ==
    {[SetRequest(id, Absent, Absent, Absent) EXCEPT !.other = TRUE] : id \in Ids}
    \cup {[SetRequest("r1", Absent, Num(2), Absent) EXCEPT !.other = TRUE]}

RequestsH == FieldRequests \cup OtherRequests \cup UnknownFieldRequests

\* The broker delivers a request while the handler waits for one; the log of
\* the serial link and of the replies starts again with it.
DeliverH(r) ==
    /\ h_pc = "idle"
    /\ inbox = <<>>
    /\ inbox' = <<r>>
    /\ h_seen' = [req |-> r, en |-> g_collection_enable]
    /\ wire' = <<>>
    /\ acks' = <<>>
    /\ UNCHANGED <<flagVars, rxVars, taskVars, genVars, uart_rx, sup, budget,
                   h_pc, h_req, h_val, h_wait, h_ticks, uart_ok, mid>>

\* uart_write_bytes starts or stops failing.
UartFault ==
    /\ uart_ok' = ~ uart_ok
    /\ UNCHANGED <<flagVars, rxVars, taskVars, genVars, hVars, uart_rx, sup,
                   budget, wire, mid, h_seen>>

\* Time passes, less than one tick period.
Drift ==
    /\ ~ mid
    /\ mid' = TRUE
    /\ UNCHANGED <<flagVars, rxVars, taskVars, genVars, hVars, uart_rx, sup,
                   budget, wire, uart_ok, h_seen>>

\* One tick of the FreeRTOS clock, as the handler sees it.
TickH ==
    /\ h_wait' = IF h_wait > 0 THEN h_wait - 1 ELSE 0
    /\ h_ticks' = IF h_ticks <= DelayTicks THEN h_ticks + 1 ELSE h_ticks
    /\ mid' = FALSE
    /\ UNCHANGED <<flagVars, rxVars, taskVars, genVars, uart_rx, sup, budget,
                   wire, uart_ok, h_seen, h_pc, h_req, h_val, inbox, acks>>

InitH ==
    /\ InitCommon
    /\ mqtt_client = TRUE
    /\ rx_pc = "start"
    /\ wire = <<>>
    /\ budget = [noise |-> 0, frames |-> 0, events |-> 0]

\* The handler and a serial link that may fail.
NextH ==
    \/ \E r \in RequestsH : DeliverH(r)
    \/ UartFault
    \/ TickH
    \/ HNext

SpecH == InitH /\ [][NextH]_vars

\* The handler and a clock whose ticks fall anywhere between its steps.
NextHTime ==
    \/ \E r \in RequestsH : DeliverH(r)
    \/ Drift
    \/ TickH
    \/ HNext

SpecHTime == InitH /\ [][NextHTime]_vars

\* The MQTT task is scheduled and the clock runs.
SpecHFair == SpecH /\ WF_vars(HNext) /\ WF_vars(TickH)

(***************************************************************************)
(* Properties of the frame receiver                                        *)
(***************************************************************************)
\* What the sender encoded in a 10-byte frame q (1-based): bytes 2..5 and
\* byte 6 + 256 * byte 7 of the wire frame.
SentVoltage(q) == SubSeq(q, 3, 6)
SentPga(q)     == q[7] + 256 * q[8]
Carries(r, q)  == r.voltage = SentVoltage(q) /\ r.pga = SentPga(q)
WellFormed(q)  ==
    /\ Len(q) = FRAME_LEN
    /\ q[1] = PREAMBLE1 /\ q[2] = PREAMBLE2
    /\ q[9] = TRAILER1 /\ q[10] = TRAILER2

\* The stream sent so far is one well-formed frame and noise bytes that never
\* form the preamble pair.
OneFrameStream == tally.good = 1 /\ tally.bad = 0 /\ ~ tally.noisePair
FrameInFlight  == cur.kind = "good" /\ uart_rx # <<>>

\* C4: a stream holding exactly one well-formed frame surrounded by
\* non-matching bytes (noise with no 0xAA 0x55 pair) yields exactly one
\* Reading, emitted when the frame's last byte is ingested, carrying the
\* frame's bytes 2..5 as the voltage and byte 6 + 256 * byte 7 as the gain
\* code; before the frame is complete no Reading exists.
C4_OneFrameOneReading ==
    /\ (tally.good = 0 /\ tally.bad = 0 /\ ~ tally.noisePair) => readings = <<>>
    /\ (OneFrameStream /\ FrameInFlight) => readings = <<>>
    /\ (OneFrameStream /\ ~ FrameInFlight) =>
          /\ Len(readings) = 1
          /\ Carries(readings[1], tally.first)

\* C4 witness: noise, then the frame (met in WaitPreamble2 after a noise 0xAA),
\* then noise again, all ingested, and the one Reading is there.
C4_Witness ==
    /\ OneFrameStream /\ uart_rx = <<>>
    /\ cur.kind = "noise" /\ prev.kind = "good" /\ prev.lead = 0 /\ prev.sync = 1
    /\ Len(readings) = 1
    /\ readings[1].pga = 2 /\ readings[1].voltage = <<0, 0, 32, 64>>

\* C5: a window AA 55 .. with a wrong trailer, met by a receiver that is not
\* in the middle of a frame, yields no Reading, and the well-formed frame
\* that immediately follows it yields exactly one, decoded from that frame.
C5_BadTrailerThenNextFrame ==
    /\ (cur.kind = "bad" /\ cur.sync # 2) => Len(readings) = cur.base
    /\ (prev.kind = "bad" /\ prev.sync # 2 /\ cur.kind = "good") =>
          IF uart_rx # <<>>
          THEN Len(readings) = prev.base
          ELSE /\ Len(readings) = prev.base + 1
               /\ emitted
               /\ Carries(readings[Len(readings)], cur.bytes)

\* C5 witness: the frame after a bad-trailer window has been ingested.
C5_Witness ==
    /\ prev.kind = "bad" /\ prev.sync # 2 /\ cur.kind = "good" /\ uart_rx = <<>>
    /\ Len(readings) = prev.base + 1

\* C6 as claimed: every well-formed frame that begins 10 or more bytes after
\* the last corrupted byte is emitted, whatever the payloads are.
C6_ResyncWithinOneFrame ==
    (cur.kind = "good" /\ cur.lead >= FRAME_LEN /\ uart_rx = <<>>) =>
        /\ emitted
        /\ Carries(readings[Len(readings)], cur.bytes)

\* C6 amended: every well-formed frame that begins 10 or more bytes after the
\* last corrupted byte is emitted, provided the frame sent right after the
\* corruption holds no 0xAA 0x55 pair in its payload.
C6_ResyncUnlessPayloadPreamble ==
    (cur.kind = "good" /\ cur.lead >= FRAME_LEN /\ uart_rx = <<>> /\ ~ tally.headPair) =>
        /\ emitted
        /\ Carries(readings[Len(readings)], cur.bytes)

\* C6 witness: noise put the receiver into a false frame (state 2) when the
\* first frame after it began; the frame after that one is emitted.
C6_Witness ==
    /\ cur.kind = "good" /\ cur.lead >= FRAME_LEN /\ uart_rx = <<>> /\ ~ tally.headPair
    /\ prev.kind = "good" /\ prev.sync = 2 /\ prev.lead = 0
    /\ emitted

\* C7: a Reading is emitted only when the last 10 ingested bytes are
\* AA 55 .. 0D 0A, and it is decoded from those 10 bytes.
C7_ReadingOnlyFromValidatedFrame ==
    emitted =>
        /\ readings # <<>>
        /\ WellFormed(last10)
        /\ Carries(readings[Len(readings)], last10)

\* C7 witness: a Reading came out of a window the receiver entered in the
\* middle of the sender's frame (after noise), and another one before it.
C7_Witness == emitted /\ Len(readings) = 2 /\ tally.bad = 1 /\ budget.noise < MaxNoise

(***************************************************************************)
(* Properties of the two tasks sharing the serial link                     *)
(***************************************************************************)
\* The bytes of configuration sequence n, in the order written.
SeqBytes(n) ==
    LET pick[i \in 0..Len(wire)] ==
            IF i = 0 THEN <<>>
            ELSE IF wire[i].seq = n THEN Append(pick[i - 1], wire[i].b)
            ELSE pick[i - 1]
    IN  pick[Len(wire)]
Values == {"0", "1", "2", "3"}
IsPrefix(a, b) == Len(a) <= Len(b) /\ a = SubSeq(b, 1, Len(a))
\* A complete SetGain sequence is 'C','1',value; a complete SetRate sequence
\* is 'F',value.
SeqShape(q) ==
    \E v \in Values : IsPrefix(q, <<"C", "1", v>>) \/ IsPrefix(q, <<"F", v>>)
SeqComplete(q) ==
    \E v \in Values : q = <<"C", "1", v>> \/ q = <<"F", v>>
BySupervisor == {i \in DOMAIN wire : wire[i].by = "sup"}

\* C1: every resume byte the supervisor wrote was written while
\* g_is_configuring was false.
C1_NoResumeWhileConfiguring == \A i \in BySupervisor : ~ wire[i].cfg

\* C2: no byte written by the supervisor lies between the first and the last
\* byte of a SetGain or SetRate sequence.
C2_NoResumeInsideSequence ==
    \A i, k \in DOMAIN wire :
        (i < k /\ wire[i].seq # 0 /\ wire[i].seq = wire[k].seq) =>
            \A j \in i..k : wire[j].by # "sup"

\* The bytes the handler wrote, in order.
ByHandler == SelectSeq(wire, LAMBDA e : e.by = "cmd")

\* C3: the bytes of two requests never mix: among the handler's bytes, every
\* byte that continues a sequence comes right after a byte of that sequence;
\* every sequence has the shape 'C','1',value (or 'F',value); and a sequence
\* is complete before the next one begins.
C3_SequencesNeverMix ==
    /\ \A j \in DOMAIN ByHandler :
          (ByHandler[j].seq # 0 /\ ByHandler[j].b \notin {"C", "F"}) =>
              j > 1 /\ ByHandler[j - 1].seq = ByHandler[j].seq
    /\ \A n \in 1..SeqCount(wire) :
          /\ SeqShape(SeqBytes(n))
          /\ n < SeqCount(wire) => SeqComplete(SeqBytes(n))

\* C3 witness: the second gain request was already waiting when the first
\* one was answered, and both sequences are on the wire.
C3_Witness ==
    /\ Len(acks) = 2 /\ acks[1].pend = 1
    /\ SeqCount(wire) >= 2
    /\ SeqBytes(1)[1] = "C" /\ SeqBytes(2)[1] = "C"
    /\ SeqComplete(SeqBytes(2))

\* C8: the supervisor writes one resume byte for each time-out it finds with
\* g_is_configuring false, only after more than IdleTicks without a byte, the
\* idle timer restarts at the write, and two resume bytes are more than
\* IdleTicks apart.
C8_OneRetryPerWindow ==
    /\ sup.gap = -1 \/ sup.gap > IdleTicks
    /\ sup.rxGap = -1 \/ sup.rxGap > IdleTicks
    /\ rx_pc \in {"check_cfg", "resend"} => elapsed > IdleTicks
    /\ (sup.since # -1 /\ rx_pc # "refresh") => elapsed <= sup.since
    /\ sup.n + (IF rx_pc = "resend" THEN 1 ELSE 0)
          = sup.due - sup.skipped - (IF rx_pc = "check_cfg" THEN 1 ELSE 0)

\* C8 witness: two resume bytes of the supervisor, after a byte was received.
C8_Witness == sup.n = 2 /\ sup.gap > IdleTicks /\ sup.rxGap > IdleTicks

\* C9: every resume byte the supervisor wrote was written while
\* g_collection_enable was true.
C9_NoResumeWhileDisabled == \A i \in BySupervisor : wire[i].en

AtRest == h_pc = "idle" /\ inbox = <<>>
\* The message is on the property-set topic and its payload is a JSON text.
Dispatched(r) == r.topic = "set" /\ r.json = "ok"
\* The values the interface allows: gain one of 1, 2, 64, 128; mode 0..3.
GainInRange(f) == f.kind = "number" /\ f.val \in {10, 20, 640, 1280}
RateInRange(f) == f.kind = "number" /\ f.val \in {0, 10, 20, 30}
\* The bytes given to uart_write_bytes for the request, in order.
Bytes == [i \in DOMAIN wire |-> wire[i].b]
\* No byte of a sequence that begins with byte c is in the log.
NoSeqOf(c) == \A n \in 1..SeqCount(wire) : SeqBytes(n)[1] # c
InGain == h_pc \in {"pga_C", "pga_1", "pga_v", "pga_end"}
InRate == h_pc \in {"mode_F", "mode_v", "mode_end"}

\* C11: for a gain (rate) value outside the allowed set, no byte of a SetGain
\* (SetRate) sequence is written and g_is_configuring is not set for it.
C11_OutOfRangeRejected ==
    h_seen.req.topic = "set" =>
        /\ ~ GainInRange(h_seen.req.pga) => NoSeqOf("C") /\ ~ InGain
        /\ ~ RateInRange(h_seen.req.mode) => NoSeqOf("F") /\ ~ InRate

\* A gain field that is present and is not a gain: not a number, or a whole
\* number outside 1, 2, 64, 128.
GainRejected(f) ==
    /\ f.kind # "absent"
    /\ f.kind = "number" => f.val % 10 = 0 /\ ~ GainInRange(f)
EnableBytes(r) ==
    CASE r.enable.kind = "true"  -> <<"A">>
      [] r.enable.kind = "false" -> <<"S">>
      [] OTHER                   -> <<>>
RateDigit(f) == CASE f.val = 0 -> "0" [] f.val = 10 -> "1" [] f.val = 20 -> "2" [] OTHER -> "3"
RateBytes(r) == IF RateInRange(r.mode) THEN <<"F", RateDigit(r.mode)>> ELSE <<>>
PlainFields(r) ==
    /\ r.enable.kind \in {"absent", "true", "false"}
    /\ r.mode.kind = "absent" \/ (r.mode.kind = "number" /\ r.mode.val % 10 = 0)

\* C12: when the handler has finished a request whose gain field is rejected
\* (7, or not a number), the log holds no byte of a gain sequence and exactly
\* the bytes of its enable and mode fields, CollectionState is what enable
\* asked for, and the request (carrying a string id) has its set_reply.
C12_InvalidGainOthersProcessed ==
    LET r == h_seen.req
    IN  (AtRest /\ Dispatched(r) /\ r.params /\ GainRejected(r.pga) /\ PlainFields(r)) =>
            /\ NoSeqOf("C")
            /\ Bytes = EnableBytes(r) \o RateBytes(r)
            /\ r.enable.kind # "absent" => g_collection_enable = (r.enable.kind = "true")
            /\ ~ g_is_configuring
            /\ IsStringId(r.id) => Len(acks) = 1 /\ acks[1].id = r.id

\* C12 witness: gain 7 with enable false and mode 3, handled.
C12_Witness ==
    /\ AtRest /\ Dispatched(h_seen.req)
    /\ h_seen.req.pga = Num(7) /\ h_seen.req.enable = JFalse /\ h_seen.req.mode = Num(3)
    /\ Bytes = <<"S", "F", "3">>
    /\ h_seen.en /\ ~ g_collection_enable
    /\ Len(acks) = 1

\* C14: a set_reply published after a uart_write_bytes of the request failed
\* does not report success.
C14_WriteFailureSurfaced ==
    (\E i \in DOMAIN wire : ~ wire[i].ok) =>
        \A k \in DOMAIN acks : acks[k].code # REPLY_CODE

C16_MalformedDropped ==
    (h_seen.req.topic = "set" /\ h_seen.req.json # "ok") =>
        /\ acks = <<>>
        /\ wire = <<>>
        /\ g_collection_enable = h_seen.en
        /\ ~ g_is_configuring

\* C13: the handler never rests with g_is_configuring true, the flag is
\* false only when every sequence begun has had all its bytes given to
\* uart_write_bytes, and whenever the flag is true it becomes false again --
\* whether or not the writes succeed.
C13_ConfiguringAlwaysCleared ==
    /\ [](h_pc = "idle" => ~ g_is_configuring)
    /\ [](~ g_is_configuring => \A n \in 1..SeqCount(wire) : SeqComplete(SeqBytes(n)))
    /\ (g_is_configuring ~> ~ g_is_configuring)

\* C13 witness: a write inside a gain sequence failed, the sequence went on
\* to its end and the flag is false.
C13_Witness ==
    /\ AtRest /\ ~ g_is_configuring
    /\ SeqCount(wire) >= 1 /\ SeqBytes(1)[1] = "C" /\ SeqComplete(SeqBytes(1))
    /\ \E i \in DOMAIN wire : wire[i].seq = 1 /\ wire[i].b = "1" /\ ~ wire[i].ok

\* The bytes written outside the gain and rate sequences.
EnableLog == SelectSeq(wire, LAMBDA e : e.seq = 0)

\* C17: enable true gives exactly one 'A' and leaves g_collection_enable
\* true, enable false exactly one 'S' and leaves it false; the byte is
\* written with g_is_configuring false, and a request with only the enable
\* field never has the flag true.
C17_SetEnabled ==
    LET r == h_seen.req
    IN  /\ h_pc \in {"enable", "enable_write"} => ~ g_is_configuring
        /\ \A i \in DOMAIN EnableLog : ~ EnableLog[i].cfg
        /\ (r.topic = "set" /\ r.pga.kind = "absent" /\ r.mode.kind = "absent")
              => ~ g_is_configuring
        /\ (AtRest /\ Dispatched(r) /\ r.params /\ r.enable.kind \in {"true", "false"}) =>
              /\ Len(EnableLog) = 1
              /\ EnableLog[1].b = IF r.enable.kind = "true" THEN "A" ELSE "S"
              /\ g_collection_enable = (r.enable.kind = "true")

\* C17 witness: collection was disabled, enable true wrote 'A' and enabled it.
C17_Witness ==
    /\ AtRest /\ Dispatched(h_seen.req) /\ h_seen.req.enable = JTrue
    /\ ~ h_seen.en /\ g_collection_enable
    /\ Bytes = <<"A">>

GainDigit(f) == CASE f.val = 10 -> "0" [] f.val = 20 -> "1" [] f.val = 640 -> "2" [] OTHER -> "3"
SeqsOf(c) == {n \in 1..SeqCount(wire) : SeqBytes(n)[1] = c}

\* C18: for gain 1, 2, 64, 128 the handler writes 'C', '1' and '0', '1',
\* '2', '3' respectively, once; g_is_configuring is true from before 'C' to
\* after the last byte, and false after that.
C18_SetGain ==
    LET r == h_seen.req
    IN  /\ InGain => g_is_configuring
        /\ h_pc \in {"mode", "reply", "idle"} => ~ g_is_configuring
        /\ \A i \in DOMAIN wire : wire[i].seq \in SeqsOf("C") => wire[i].cfg
        /\ (r.topic = "set" /\ GainInRange(r.pga)) =>
              \A n \in SeqsOf("C") : IsPrefix(SeqBytes(n), <<"C", "1", GainDigit(r.pga)>>)
        /\ (AtRest /\ Dispatched(r) /\ r.params /\ GainInRange(r.pga)) =>
              /\ Cardinality(SeqsOf("C")) = 1
              /\ \A n \in SeqsOf("C") : SeqBytes(n) = <<"C", "1", GainDigit(r.pga)>>

\* C18 witness: gain 128 handled, 'C','1','3' written.
C18_Witness ==
    /\ AtRest /\ Dispatched(h_seen.req) /\ h_seen.req.pga = Num(128)
    /\ Bytes = <<"C", "1", "3">> /\ ~ g_is_configuring

\* C19: for mode 0..3 the handler writes 'F' and the digit of the mode, once;
\* g_is_configuring is true from before 'F' to after the digit, and false
\* after that.
C19_SetRate ==
    LET r == h_seen.req
    IN  /\ InRate => g_is_configuring
        /\ h_pc \in {"reply", "idle"} => ~ g_is_configuring
        /\ \A i \in DOMAIN wire : wire[i].seq \in SeqsOf("F") => wire[i].cfg
        /\ (r.topic = "set" /\ RateInRange(r.mode)) =>
              \A n \in SeqsOf("F") : IsPrefix(SeqBytes(n), <<"F", RateDigit(r.mode)>>)
        /\ (AtRest /\ Dispatched(r) /\ r.params /\ RateInRange(r.mode)) =>
              /\ Cardinality(SeqsOf("F")) = 1
              /\ \A n \in SeqsOf("F") : SeqBytes(n) = <<"F", RateDigit(r.mode)>>

\* C19 witness: mode 2 handled, 'F','2' written.
C19_Witness ==
    /\ AtRest /\ Dispatched(h_seen.req) /\ h_seen.req.mode = Num(2)
    /\ Bytes = <<"F", "2">> /\ ~ g_is_configuring

\* C20: between a byte of a sequence and the next one at least SETTLE_MS
\* have passed.  The next byte is written gap ticks after it; a byte written
\* between two ticks has less than a tick period to its first tick.
C20_FullSettleDelay ==
    \A i \in DOMAIN wire :
        (i > 1 /\ wire[i].seq # 0 /\ wire[i].seq = wire[i - 1].seq) =>
            (wire[i].gap - (IF wire[i - 1].mid THEN 1 ELSE 0)) * portTICK_PERIOD_MS
                >= SETTLE_MS

(***************************************************************************)
(* Who changes the two flags                                               *)
(***************************************************************************)
\* The handler is at the enable field of a request that has one (main.c:233).
AtEnableField == h_pc = "enable" /\ h_req.enable.kind # "absent"

\* C21: g_collection_enable changes only in the step of the handler that
\* stores the value of a request's enable field; no step of rx_task (loop,
\* supervisor, frame decoding), of a gain or rate sequence or of the
\* set_reply changes it.
C21_OnlyEnableCommandMutates ==
    [][ g_collection_enable' # g_collection_enable =>
            /\ AtEnableField
            /\ g_collection_enable' = EnableOn(h_req.enable) ]_vars

\* C21 witness: enable false switched collection off; rx_task then paused,
\* a gain sequence was written and answered, and collection is still off.
C21_Witness ==
    /\ ~ g_collection_enable
    /\ Len(acks) = 2
    /\ SeqCount(wire) >= 1 /\ SeqComplete(SeqBytes(1))
    /\ rx_pc = "pause"

\* C22: g_is_configuring is true exactly while the handler is between the
\* store that starts a gain or rate sequence (main.c:263, 291) and the store
\* that ends it (main.c:274, 295); it is false at the start and whenever the
\* handler waits for a request.
C22_ConfiguringOnlyInSequence ==
    /\ g_is_configuring <=> (InGain \/ InRate)
    /\ h_pc = "idle" => ~ g_is_configuring
    /\ (wire = <<>> /\ acks = <<>> /\ h_pc = "idle") => ~ g_is_configuring

\* C22 witness: a rate sequence has come and gone, and the flag is true
\* again inside the gain sequence of the next request, between '1' and the
\* gain digit.
C22_Witness ==
    /\ g_is_configuring
    /\ h_pc = "pga_v"
    /\ Len(acks) = 1
    /\ SeqCount(wire) = 3 /\ SeqBytes(2) = <<"F", "1">> /\ SeqBytes(3) = <<"C", "1">>

(***************************************************************************)
(* Properties of rx_task with the clock                                    *)
(***************************************************************************)
\* rx_task takes a byte from the UART in this step (main.c:420-421, len > 0).
TakesByte == rx_pc = "read" /\ uart_rx # <<>> /\ rx_pc' = "loop"

\* C23: every byte rx_task takes restarts the idle timer, whatever the state
\* of the receiver and whether or not a Reading comes out of it; so the
\* supervisor finds a time-out, and writes a resume byte, only when more than
\* IdleTicks have passed since the last byte taken.
C23_EveryByteRestartsIdleTimer ==
    /\ [][TakesByte => elapsed' = 0]_vars
    /\ [](rx_pc \in {"check_cfg", "resend"} =>
             sup.rxSince = -1 \/ sup.rxSince > IdleTicks)
    /\ [](sup.n > 0 => sup.rxGap = -1 \/ sup.rxGap > IdleTicks)

\* C23 witness: garbage, the preamble, the payload and the first trailer byte
\* were taken one by one; the last byte of a bad trailer arrives 2000 ms after
\* the byte before it, and no resume byte was written since the start.
C23_Witness ==
    /\ state = 2 /\ data_idx = FRAME_LEN - 1
    /\ rx_pc = "read" /\ uart_rx = <<TRAILER1>>
    /\ elapsed = IdleTicks
    /\ sup.n = 0 /\ readings = <<>>

(***************************************************************************)
(* What the receiver keeps of the frames it discards                       *)
(***************************************************************************)
\* The count of malformed frames the program keeps.  The branch for a
\* mismatched trailer only logs a warning (main.c:467-469; esp32_code.c has
\* no such branch), no variable is changed in it, and neither file declares
\* a counter: the count reads the same in every state.
MalformedCount == 0

\* rx_task takes the 10th byte of a window whose trailer does not match.
CompletesBadFrame ==
    /\ uart_rx # <<>> /\ uart_rx' = Tail(uart_rx)
    /\ state = 2 /\ data_idx = FRAME_LEN - 1
    /\ ~ TailOk([frame_buffer EXCEPT ![data_idx] = Head(uart_rx)])

\* C24: the step that completes a window with a mismatched trailer emits no
\* Reading and adds one to the count of malformed frames, and no other step
\* changes that count.
C24_MalformedFramesCounted ==
    [][ IF CompletesBadFrame
        THEN readings' = readings /\ MalformedCount' = MalformedCount + 1
        ELSE MalformedCount' = MalformedCount ]_vars

(***************************************************************************)
(* Telemetry                                                               *)
(***************************************************************************)
\* C25 as claimed: every Reading decoded from a validated frame has been
\* published, as exactly one message.
C25_EveryReadingPublished ==
    \A i \in DOMAIN readings : readings[i].published = 1

\* C25 amended: when the MQTT client handle exists every Reading has been
\* published exactly once; when it is NULL no Reading is published.  Either
\* way a Reading comes from a validated frame (the last 10 bytes taken).
C25_PublishedOnceIfClient ==
    /\ \A i \in DOMAIN readings :
          readings[i].published = (IF mqtt_client THEN 1 ELSE 0)
    /\ emitted => WellFormed(last10) /\ Carries(readings[Len(readings)], last10)

\* C25 witness: with the client handle set, two frames were decoded and each
\* Reading was published once.
C25_Witness ==
    /\ mqtt_client /\ emitted /\ uart_rx = <<>>
    /\ Len(readings) = 2
    /\ readings[1].published = 1 /\ readings[2].published = 1

\* The request asks for nothing the handler looks up: params holds fields,
\* none of them named enable, pga or mode.
OnlyUnknownFields(r) ==
    /\ Dispatched(r) /\ r.params /\ r.other
    /\ r.enable.kind = "absent" /\ r.pga.kind = "absent" /\ r.mode.kind = "absent"

\* C26: while and after a request with only unrecognized fields is handled,
\* no byte has been given to uart_write_bytes and both flags are as they were
\* when it arrived; the request is answered like any other: when it has a
\* string id, with one set_reply built from that id, of code 200 and message
\* "success" when the text fits reply_data.
C26_UnknownFieldsIgnored ==
    LET r == h_seen.req
    IN  OnlyUnknownFields(r) =>
            /\ wire = <<>>
            /\ g_collection_enable = h_seen.en
            /\ ~ g_is_configuring
            /\ Len(acks) <= 1
            /\ AtRest => (Len(acks) = 1 <=> IsStringId(r.id))
            /\ acks # <<>> =>
                  /\ acks[1].id = r.id
                  /\ ReplyFits(r.id) => acks[1].code = REPLY_CODE /\ acks[1].msg = REPLY_MSG

\* C26 witness: such a request was handled while collection was disabled;
\* nothing was written, collection is still disabled, and the reply is out.
C26_Witness ==
    /\ AtRest /\ OnlyUnknownFields(h_seen.req)
    /\ ~ h_seen.en /\ ~ g_collection_enable
    /\ wire = <<>>
    /\ Len(acks) = 1 /\ acks[1].id = "r1"

(***************************************************************************)
(* The receiver, state by state                                            *)
(***************************************************************************)
\* rx_task takes the byte at the head of the UART queue in this step.
Takes(b) == uart_rx # <<>> /\ Head(uart_rx) = b /\ uart_rx' = Tail(uart_rx)
AnyByte == NoiseBytes \cup {0, 2, 32, 64, TRAILER1, TRAILER2}

\* C27: in state 1 the byte 0xAA keeps the receiver in state 1, 0x55 takes it
\* to state 2 and any other byte back to state 0; so a well-formed frame that
\* begins while the receiver is in state 0 or 1 -- in particular after a run
\* of 0xAA bytes -- is emitted when its last byte is taken.
C27_PreambleRestart ==
    /\ [][ \A b \in AnyByte : (state = 1 /\ Takes(b)) =>
              state' = (IF b = PREAMBLE1 THEN 1 ELSE IF b = PREAMBLE2 THEN 2 ELSE 0) ]_vars
    /\ []( (cur.kind = "good" /\ cur.sync # 2 /\ uart_rx = <<>>) =>
              /\ emitted
              /\ Carries(readings[Len(readings)], cur.bytes) )

\* C27 witness: two or more noise bytes 0xAA in a row (the receiver was in
\* state 1 before the last of them and after it), then a frame, emitted.
C27_Witness ==
    /\ cur.kind = "good" /\ cur.sync = 1
    /\ prev.kind = "noise" /\ prev.sync = 1
    /\ uart_rx = <<>> /\ emitted
    /\ last10 = cur.bytes

\* The bytes collected since the receiver entered state 2.
Collected == data_idx - 2

\* C28: in state 2 every byte taken is stored and counted, whatever it is; the
\* receiver stays in state 2 until the 8th byte since it entered and is in
\* state 0 right after that byte, with or without a Reading; so it is never
\* in state 2 with 8 or more bytes collected.
C28_EightBytesThenWaitPreamble1 ==
    /\ [][ \A b \in AnyByte : (state = 2 /\ Takes(b)) =>
              /\ frame_buffer' = [frame_buffer EXCEPT ![data_idx] = b]
              /\ data_idx' = data_idx + 1
              /\ state' = (IF Collected = 7 THEN 0 ELSE 2)
              /\ (readings' # readings) =>
                    Collected = 7 /\ frame_buffer[8] = TRAILER1 /\ b = TRAILER2 ]_vars
    /\ [](state = 2 => Collected \in 0..7)

\* C28 witness: a window whose payload begins with AA 55 and whose trailer
\* is wrong was collected from WaitPreamble1 to its 8th byte; the receiver is
\* back in state 0 and has emitted nothing.
C28_Witness ==
    /\ cur.kind = "bad" /\ cur.sync = 0 /\ uart_rx = <<>>
    /\ last10 = cur.bytes
    /\ last10[3] = PREAMBLE1 /\ last10[4] = PREAMBLE2
    /\ state = 0 /\ ~ emitted /\ Len(readings) = cur.base

\* C29: frame_buffer has the 10 cells 0..9; whenever the receiver is in state
\* 2, where the next byte is stored at data_idx, 2 <= data_idx <= 9; a step
\* that stores a byte stores it in one cell, of index below 10; and data_idx
\* is never above 10.
C29_IndexInsideBuffer ==
    /\ [](DOMAIN frame_buffer = 0..(FRAME_LEN - 1))
    /\ [](state = 2 => data_idx \in 2..(FRAME_LEN - 1))
    /\ [](data_idx \in 0..FRAME_LEN)
    /\ [][ \A b \in AnyByte : Takes(b) =>
              \E i \in 0..(FRAME_LEN - 1) :
                  /\ state = 2 => i = data_idx
                  /\ frame_buffer' \in {frame_buffer, [frame_buffer EXCEPT ![i] = b]} ]_vars

\* C29 witness: after a window with a bad trailer and noise, a second window
\* is being collected and its last byte is about to be stored at index 9.
C29_Witness ==
    /\ tally.bad = 1 /\ budget.frames = 0 /\ budget.noise < MaxNoise
    /\ cur.kind = "good"
    /\ state = 2 /\ data_idx = FRAME_LEN - 1
    /\ Len(uart_rx) = 1

(***************************************************************************)
(* The order of the fields of one request                                  *)
(***************************************************************************)
GainBytes(r) == IF GainInRange(r.pga) THEN <<"C", "1", GainDigit(r.pga)>> ELSE <<>>
\* The bytes a request asks for, field by field in the order enable, gain,
\* mode.
Expected(r) == EnableBytes(r) \o GainBytes(r) \o RateBytes(r)
\* The fields of the request are absent, or values the interface names:
\* enable true or false, gain and mode whole numbers.
PlainRequest(r) ==
    /\ Dispatched(r) /\ r.params /\ PlainFields(r)
    /\ r.pga.kind = "absent" \/ GainInRange(r.pga) \/ GainRejected(r.pga)

\* C30: the bytes given to uart_write_bytes for a request are, at every
\* moment, the first bytes of: its enable byte, then 'C','1',digit for its
\* gain, then 'F',digit for its mode; a set_reply is published only when all
\* of them have been written, and no byte follows it.
C30_FieldOrderThenAck ==
    LET r == h_seen.req
    IN  PlainRequest(r) =>
            /\ IsPrefix(Bytes, Expected(r))
            /\ acks # <<>> => Bytes = Expected(r) /\ h_pc = "idle"
            /\ AtRest => Bytes = Expected(r)

\* C30 witness: enable false, gain 64 and mode 3 in one request: 'S', then
\* 'C','1','2', then 'F','3', and the set_reply.
C30_Witness ==
    /\ AtRest /\ h_seen.req = SetRequest("r1", JFalse, Num(64), Num(3))
    /\ Bytes = <<"S", "C", "1", "2", "F", "3">>
    /\ Len(acks) = 1 /\ acks[1].id = "r1"

(***************************************************************************)
(* What the set_reply holds                                                *)
(***************************************************************************)
\* C31: every set_reply published holds code 200 and the message "success",
\* whatever the request's fields were.
C31_EveryAckReportsSuccess ==
    \A k \in DOMAIN acks : acks[k].code = REPLY_CODE /\ acks[k].msg = REPLY_MSG

(***************************************************************************)
(* The supervisor after collection is switched on again                    *)
(***************************************************************************)
\* C32: when collection was switched on again after more than IdleTicks off
\* and no byte has been received, a resume byte of the supervisor comes more
\* than IdleTicks after the switching on.
C32_NoRetryRightAfterResume ==
    (sup.onGap # -1 /\ sup.onOff > IdleTicks /\ sup.rxGap = -1) =>
        sup.onGap > IdleTicks

(***************************************************************************)
(* The supervisor with a silent sensor                                     *)
(***************************************************************************)
\* C33: with collection enabled, no configuration sequence and no byte from
\* the sensor, the supervisor writes a resume byte again and again for ever,
\* and no tick passes once IdleTicks + ReadTicks have gone by since the last
\* resume byte: the next one is written first.
C33_RetriesForever ==
    /\ []<><<RxResend>>_vars
    /\ [][elapsed = IdleTicks + ReadTicks => ~ TickIdle]_vars

\* C33 witness: the supervisor has written a resume byte IdleTicks + ReadTicks
\* after its last one, and the record has started again at least once.
C33_Witness ==
    /\ sup.n = 1 /\ sup.gap = IdleTicks + ReadTicks /\ sup.since = 0
    /\ wire = <<Entry("A", "sup", 0)>>

(***************************************************************************)
(* The receive loop while collection is disabled                           *)
(***************************************************************************)
\* The receiver and its Readings stay as they are, no byte is taken from the
\* driver and last_data_time is not written: the time since it is the same
\* or one tick more.
NothingIngested ==
    /\ UNCHANGED <<state, frame_buffer, data_idx, readings>>
    /\ Len(uart_rx') >= Len(uart_rx)
    /\ elapsed' \in {elapsed, Min(elapsed + 1, TimerCap)}

\* C34 as stated: once rx_task is in its loop, no step taken while
\* g_collection_enable is false ingests a byte, emits a Reading or writes
\* last_data_time.
C34_DisabledIngestsNothing ==
    [][(~ g_collection_enable /\ rx_pc \notin {"start", "init_write"})
          => NothingIngested]_vars

\* C34: a pass of the loop that reads g_collection_enable as false goes to
\* the pause, and during the pause nothing is ingested, no Reading is emitted
\* and last_data_time is not written, whatever waits in the driver.
C34_PausedIngestsNothing ==
    [][ /\ rx_pc = "pause" => NothingIngested
        /\ (rx_pc = "loop" /\ ~ g_collection_enable /\ rx_pc' # rx_pc)
              => rx_pc' = "pause" ]_vars

\* C34 witness: the pause is over with a byte of the sensor still waiting in
\* the driver, and rx_task is back at the top of its loop.
C34_Witness ==
    /\ ~ g_collection_enable /\ rx_pc = "loop" /\ uart_rx # <<>>
    /\ \E i \in DOMAIN wire : wire[i].b = "S"
    /\ elapsed >= PauseTicks

(***************************************************************************)
(* The values of the enable field                                          *)
(***************************************************************************)
\* C35: after a request with an enable field, collection is enabled and 'A'
\* was written when the value is true or the number 1, and collection is
\* disabled and 'S' was written for every other value.
C35_OnlyTrueOrOneEnables ==
    LET r  == h_seen.req
        on == r.enable = JTrue \/ r.enable = Num(1)
    IN  (AtRest /\ Dispatched(r) /\ r.params /\ r.enable.kind # "absent") =>
            /\ g_collection_enable = on
            /\ Len(EnableLog) = 1
            /\ EnableLog[1].b = IF on THEN "A" ELSE "S"

(***************************************************************************)
(* Messages on other topics                                                *)
(***************************************************************************)
\* C36: a message on a topic other than the property-set topic writes no
\* byte, leaves both flags as they were and gets no set_reply; the handler
\* is done with it in one step.
C36_OtherTopicsNotDispatched ==
    LET r == h_seen.req
    IN  r.topic \in OtherTopics =>
            /\ wire = <<>>
            /\ acks = <<>>
            /\ g_collection_enable = h_seen.en
            /\ ~ g_is_configuring
            /\ h_pc = "idle"

\* C36 witness: a message on the topic of the replies, with enable false and
\* a valid gain in its params, has been handled; collection is still enabled.
C36_Witness ==
    /\ AtRest
    /\ h_seen.req.topic = "set_reply" /\ h_seen.req.json = "ok"
    /\ h_seen.req.enable = JFalse /\ h_seen.req.pga = Num(2)
    /\ h_seen.en /\ g_collection_enable
    /\ wire = <<>> /\ acks = <<>>

(***************************************************************************)
(* The first resume byte of rx_task                                        *)
(***************************************************************************)
\* The bytes rx_task wrote before its loop.
ByInit == {i \in DOMAIN wire : wire[i].by = "init"}

\* C37: rx_task writes one 'A' before its loop, so before its first read and
\* before any byte of the supervisor, with the receiver still waiting for 0xAA
\* and, when the byte is written, g_collection_enable true and
\* g_is_configuring false.
C37_OneResumeAtStart ==
    /\ Cardinality(ByInit) = IF rx_pc \in {"start", "init_write"} THEN 0 ELSE 1
    /\ \A i \in ByInit :
          /\ wire[i].b = "A"
          /\ \A j \in BySupervisor : i < j
          /\ wire[i].en /\ ~ wire[i].cfg
    /\ rx_pc \in {"start", "init_write"} =>
          state = 0 /\ data_idx = 0 /\ readings = <<>> /\ sup.n = 0

(***************************************************************************)
(* The Wi-Fi reconnect counter                                             *)
(***************************************************************************)
\* C38: s_retry_num stays in 0..ESP_MAXIMUM_RETRY and counts the reconnect
\* attempts since the last got-IP event, so there are at most 5 of them; it
\* is 0 after a got-IP event; and the disconnect event that follows 5
\* disconnect events with no got-IP event between sets WIFI_FAIL_BIT and
\* calls esp_wifi_connect no more.
C38_RetryCounterBounded ==
    /\ [](/\ s_retry_num \in 0..ESP_MAXIMUM_RETRY
          /\ wifi_log.tries = s_retry_num
          /\ wifi_log.last = "got_ip" => s_retry_num = 0
          /\ wifi_log.drops > ESP_MAXIMUM_RETRY => WIFI_FAIL_BIT \in s_wifi_event_group)
    /\ [][(wifi_log.drops >= ESP_MAXIMUM_RETRY /\ wifi_log'.drops = wifi_log.drops + 1)
             => /\ WIFI_FAIL_BIT \in s_wifi_event_group'
                /\ wifi_log'.connects = wifi_log.connects
                /\ s_retry_num' = s_retry_num]_vars

\* C38 witness: after a got-IP event, six disconnect events in a row: five
\* reconnect attempts, and WIFI_FAIL_BIT set by the sixth.
C38_Witness ==
    /\ WIFI_CONNECTED_BIT \in s_wifi_event_group
    /\ wifi_log.drops = ESP_MAXIMUM_RETRY + 1
    /\ wifi_log.tries = ESP_MAXIMUM_RETRY /\ s_retry_num = ESP_MAXIMUM_RETRY
    /\ WIFI_FAIL_BIT \in s_wifi_event_group

(***************************************************************************)
(* The time-out of Read_CS1237                                             *)
(***************************************************************************)
\* C39: when the ADC never pulls its data line low, Read_CS1237 ends with
\* its time-out and the result 0.
C39_ReadTimesOut == <>(~ dout \/ (adc_pc = "timeout" /\ adc_ret = 0))

====
